---- MODULE Spec2Model ----
(***************************************************************************)
(* picframe: the restart-durable interval scheduler (AsyncTimerManager,    *)
(* async_timer.py) and the catalog synchronisation engine (ImageCache,     *)
(* image_cache.py, over the tables of schema.py).                          *)
(***************************************************************************)
EXTENDS Integers, Sequences, FiniteSets, TLC

(***************************************************************************)
(* Bounds of the scheduler model.                                          *)
(***************************************************************************)
MaxTime == 2
MaxTasks == 2
MaxLoops == 2

\* the registrations tried: <<name, interval in seconds>>
Registrations == {<<"a", 1>>, <<"a", 2>>, <<"b", 1>>}
\* Optional[float]: None is <<>>, a value t is <<t>>
None == <<>>
Some(t) == <<t>>

\* asyncio.sleep(1) at the end of each iteration of _run
SleepSecs == 1

VARIABLES
  clock,          \* time.time()
  store,          \* the persisted timer_state table: a function from the names that have a row to last_run
  alive,          \* an AsyncTimerManager object exists in the process
  dbOpen,         \* self._db is an open connection
  running,        \* self._running
  tasks,          \* self._tasks: sequence of [name, callback, interval, last_run]
  loops,          \* the _run coroutines created by start(): [pc, batch, wake]
  hist,           \* per task: the Optional value register() loaded for it,
                  \* and whether it has been launched since
  crashed,        \* bodies that were executing when the process was destroyed
  err             \* the exception raised or logged in the step that led here, or ""

tvars == <<clock, store, alive, dbOpen, running, tasks, loops, hist, crashed, err>>

VARIABLES
  mclock,             \* the filesystem's clock, the source of every mtime
  dirs,               \* the folders on disk under picture_dir: path -> st_mtime
  files,              \* the files on disk: full path -> mtime
  db,                 \* the catalog store: [folder, file, meta], each a set of rows
  lock,               \* self.__db_write_lock: "free" or the thread that holds it
  bg,                 \* the thread running ImageCache.__loop: [pc, cur, err]
  fg,                 \* the foreground caller: [pc, ret, err]
  modified_folders,   \* self.__modified_folders: sequence of <<dir, mod_tm>>
  modified_files,     \* self.__modified_files: sequence of full paths
  keep_looping,       \* self.__keep_looping
  pause_looping,      \* self.__pause_looping
  purge_files,        \* self.__purge_files
  shutdown_completed, \* self.__shutdown_completed
  upd                 \* the latest update_cache() call: the files its scan queued,
                      \* whether the pause flag was seen set, and how it ended

cvars == <<mclock, dirs, files, db, lock, bg, fg, modified_folders, modified_files,
           keep_looping, pause_looping, purge_files, shutdown_completed, upd>>

VARIABLES
  playlist,           \* Model: the playlist, the position in it, and where
                      \* Controller.next() is in get_next_file
  model_pause,        \* the attribute pause_looping of the Model object:
                      \* "method", or the value assigned to it
  imp                 \* ImportPhotos: _importing and the runs of check_for_updates

xvars == <<playlist, model_pause, imp>>

vars == <<tvars, cvars, xvars>>

(***************************************************************************)
(* Storage helpers: _load_last_run, _save_last_run, _save_all_states.      *)
(***************************************************************************)
LoadLastRun(st, name) == IF name \in DOMAIN st THEN Some(st[name]) ELSE None

\* variant: INSERT OR IGNORE, the row of a name is written once
SaveLastRun_KeepFirst(st, name, timestamp) ==
  [n \in DOMAIN st \cup {name} |-> IF n \in DOMAIN st THEN st[n] ELSE timestamp]

\* INSERT OR REPLACE on the primary key name
SaveLastRun(st, name, timestamp) ==
  [n \in DOMAIN st \cup {name} |-> IF n = name THEN timestamp ELSE st[n]]

RECURSIVE SaveAllFrom(_, _, _)
SaveAllFrom(st, ts, i) ==
  IF i > Len(ts) THEN st
  ELSE SaveAllFrom(SaveLastRun(st, ts[i].name, ts[i].last_run), ts, i + 1)

SaveAllStates(st, ts) == SaveAllFrom(st, ts, 1)

(***************************************************************************)
(* register(callback, interval, name)                                      *)
(***************************************************************************)
\* variant: the persisted row is ignored
InitialLastRun_NoLoad(st, name, interval, now) == now - interval

InitialLastRun(st, name, interval, now) ==
  IF LoadLastRun(st, name) = None THEN now - interval
  ELSE LoadLastRun(st, name)[1]

\* variant: the callback is not examined
IsCoroutineFunction_Any(callback) == TRUE

\* asyncio.iscoroutinefunction(callback)
IsCoroutineFunction(callback) == callback = "async"

Register(callback, interval, name) ==
  /\ alive
  /\ UNCHANGED <<cvars, xvars>>
  /\ Len(tasks) < MaxTasks
  /\ IF ~IsCoroutineFunction(callback)
     THEN \* raise TypeError
          /\ err' = "TypeError"
          /\ UNCHANGED <<tasks, hist>>
     ELSE IF ~dbOpen
     THEN \* _load_last_run raises on the closed connection
          /\ err' = "ProgrammingError"
          /\ UNCHANGED <<tasks, hist>>
     ELSE /\ tasks' = Append(tasks,
               [name |-> name, callback |-> callback, interval |-> interval,
                last_run |-> InitialLastRun(store, name, interval, clock)])
          /\ hist' = Append(hist, [loaded |-> LoadLastRun(store, name), fired |-> FALSE])
          /\ err' = ""
  /\ UNCHANGED <<clock, store, alive, dbOpen, running, loops, crashed>>

(***************************************************************************)
(* start() and stop()                                                      *)
(***************************************************************************)
NewLoop == [pc |-> "new", batch |-> {}, wake |-> 0]

Start ==
  /\ alive
  /\ UNCHANGED <<cvars, xvars>>
  /\ ~running
  /\ Len(loops) < MaxLoops
  /\ running' = TRUE
  /\ loops' = Append(loops, NewLoop)
  /\ err' = ""
  /\ UNCHANGED <<clock, store, alive, dbOpen, tasks, hist, crashed>>

Stop ==
  /\ alive
  /\ UNCHANGED <<cvars, xvars>>
  /\ running' = FALSE
  /\ IF dbOpen
     THEN /\ store' = SaveAllStates(store, tasks)
          /\ dbOpen' = FALSE
          /\ err' = ""
     ELSE \* _save_all_states raises on the closed connection when a task
          \* is registered; close() of a closed connection does nothing
          /\ UNCHANGED <<store, dbOpen>>
          /\ err' = IF Len(tasks) > 0 THEN "ProgrammingError" ELSE ""
  /\ UNCHANGED <<clock, alive, tasks, loops, hist, crashed>>

(***************************************************************************)
(* _run: one iteration of the while loop up to its first await.            *)
(***************************************************************************)
\* variants: a strict comparison; a comparison that is one second early
Due_Strict(task, now) == now - task.last_run > task.interval

Due_Early(task, now) == now - task.last_run >= task.interval - 1

Due(task, now) == now - task.last_run >= task.interval

DueSet(ts, now) == {i \in DOMAIN ts : Due(ts[i], now)}

\* the body of _run_task for one due task, handed to asyncio.gather
Coro(i, now) == [task |-> i, at |-> now]

\* the for loop over self._tasks: stamp, persist, collect; `open` is whether
\* the connection is open (a save on a closed connection raises)
RECURSIVE ForTasks(_, _, _, _, _, _)
ForTasks(ts, st, co, now, open, i) ==
  IF i > Len(ts)
  THEN [tasks |-> ts, store |-> st, coros |-> co, raised |-> FALSE]
  ELSE IF Due(ts[i], now)
  THEN LET ts1 == [ts EXCEPT ![i].last_run = now] IN
       IF ~open
       THEN [tasks |-> ts1, store |-> st, coros |-> co, raised |-> TRUE]
       ELSE ForTasks(ts1, SaveLastRun(st, ts[i].name, now),
                     co \cup {Coro(i, now)}, now, open, i + 1)
  ELSE ForTasks(ts, st, co, now, open, i + 1)

Pass(now) == ForTasks(tasks, store, {}, now, dbOpen, 1)

\* the loop may pass its await: the sleep is over, or the loop has not run yet
Awake(loop) ==
  \/ loop.pc = "new"
  \/ loop.pc = "sleep" /\ clock >= loop.wake

\* the coroutine has ended (returned, raised or was cancelled): it is no
\* longer among the loops
Remove(ls, l) == [k \in 1..(Len(ls) - 1) |-> IF k < l THEN ls[k] ELSE ls[k + 1]]

\* while self._running is false: the coroutine returns
LoopExit(l) ==
  /\ alive
  /\ UNCHANGED <<cvars, xvars>>
  /\ l \in DOMAIN loops
  /\ Awake(loops[l])
  /\ ~running
  /\ loops' = Remove(loops, l)
  /\ err' = ""
  /\ UNCHANGED <<clock, store, alive, dbOpen, running, tasks, hist, crashed>>

\* one due-check: every due task is stamped, persisted and launched
LoopTick(l) ==
  /\ alive
  /\ UNCHANGED <<cvars, xvars>>
  /\ l \in DOMAIN loops
  /\ Awake(loops[l])
  /\ running
  /\ ~Pass(clock).raised
  /\ LET p == Pass(clock)
         due == {c.task : c \in p.coros} IN
       /\ tasks' = p.tasks
       /\ store' = p.store
       /\ hist' = [i \in DOMAIN hist |->
                      IF i \in due THEN [hist[i] EXCEPT !.fired = TRUE] ELSE hist[i]]
       /\ loops' = [loops EXCEPT ![l] =
                      IF p.coros # {}
                      THEN [pc |-> "gather", batch |-> @.batch \cup p.coros, wake |-> 0]
                      ELSE [pc |-> "sleep", batch |-> @.batch, wake |-> clock + SleepSecs]]
       /\ err' = ""
  /\ UNCHANGED <<clock, alive, dbOpen, running, crashed>>

\* a due-check on a closed connection: the first due task is stamped, its
\* save raises sqlite3.ProgrammingError, which _run does not catch
LoopFail(l) ==
  /\ alive
  /\ UNCHANGED <<cvars, xvars>>
  /\ l \in DOMAIN loops
  /\ Awake(loops[l])
  /\ running
  /\ Pass(clock).raised
  /\ tasks' = Pass(clock).tasks
  /\ loops' = Remove(loops, l)
  /\ err' = "ProgrammingError"
  /\ UNCHANGED <<clock, store, alive, dbOpen, running, hist, crashed>>

(***************************************************************************)
(* _run_task and asyncio.gather: a body of the batch ends.                 *)
(***************************************************************************)
\* variant: the exception of the callback is not caught
RunTask_NoCatch(outcome) == outcome

\* what _run_task hands to gather when the callback ends with `outcome`:
\* an Exception is caught and logged
RunTask(outcome) == IF outcome = "raise" THEN "ok" ELSE outcome

\* variant: the batch is not awaited
BatchFinished_Never(batch) == TRUE

\* gather returns when every coroutine of the batch has ended
BatchFinished(batch) == batch = {}

BodyEnds(l, b, outcome) ==
  /\ alive
  /\ UNCHANGED cvars
  /\ l \in DOMAIN loops
  /\ b \in loops[l].batch
  /\ LET rest == loops[l].batch \ {b} IN
       loops' =
          IF loops[l].pc = "gather" /\ RunTask(outcome) # "ok"
          THEN \* gather re-raises into _run, which does not catch it
               Remove(loops, l)
          ELSE [loops EXCEPT ![l] =
                  IF @.pc = "gather" /\ BatchFinished(rest)
                  THEN [pc |-> "sleep", batch |-> rest, wake |-> clock + SleepSecs]
                  ELSE [@ EXCEPT !.batch = rest]]
  /\ err' = IF outcome = "ok" THEN ""
            ELSE IF RunTask(outcome) = "ok" THEN "TaskError"  \* caught and logged
            ELSE "Exception"
  /\ UNCHANGED <<clock, store, alive, dbOpen, running, tasks, hist, crashed>>

\* the body of a task whose callback is outside the model
BodyEnd(l, b, outcome) ==
  /\ BodyEnds(l, b, outcome)
  /\ UNCHANGED xvars

(***************************************************************************)
(* Cancellation of the task that runs _run, at one of its awaits.          *)
(***************************************************************************)
Cancel(l) ==
  /\ alive
  /\ UNCHANGED <<cvars, xvars>>
  /\ l \in DOMAIN loops
  /\ loops[l].pc \in {"new", "gather", "sleep"}
  /\ IF loops[l].pc = "new"
     THEN \* cancelled before its first step: the try block is never entered
          /\ loops' = Remove(loops, l)
          /\ err' = ""
          /\ UNCHANGED store
     ELSE \* gather cancels its children; except CancelledError: flush
          /\ loops' = Remove(loops, l)
          /\ IF dbOpen
             THEN /\ store' = SaveAllStates(store, tasks)
                  /\ err' = ""
             ELSE \* _save_all_states raises when a task is registered
                  /\ UNCHANGED store
                  /\ err' = IF Len(tasks) > 0 THEN "ProgrammingError" ELSE ""
  /\ UNCHANGED <<clock, alive, dbOpen, running, tasks, hist, crashed>>

(***************************************************************************)
(* The environment: time passes; the process is destroyed and the          *)
(* scheduler is constructed again on the same store.                       *)
(***************************************************************************)
Advance ==
  /\ clock < MaxTime
  /\ UNCHANGED <<cvars, xvars>>
  /\ clock' = clock + 1
  /\ err' = ""
  /\ UNCHANGED <<store, alive, dbOpen, running, tasks, loops, hist, crashed>>

Executing == UNION {{[name |-> tasks[c.task].name, at |-> c.at] : c \in loops[l].batch}
                      : l \in DOMAIN loops}

Destroy ==
  /\ alive
  /\ UNCHANGED <<cvars, xvars>>
  /\ alive' = FALSE
  /\ dbOpen' = FALSE
  /\ running' = FALSE
  /\ tasks' = <<>>
  /\ hist' = <<>>
  /\ loops' = <<>>
  /\ crashed' = Executing
  /\ err' = ""
  /\ UNCHANGED <<clock, store>>

\* AsyncTimerManager.__init__ on the existing database file
Construct ==
  /\ ~alive
  /\ UNCHANGED <<cvars, xvars>>
  /\ alive' = TRUE
  /\ dbOpen' = TRUE
  /\ running' = FALSE
  /\ tasks' = <<>>
  /\ hist' = <<>>
  /\ loops' = <<>>
  /\ crashed' = {}
  /\ err' = ""
  /\ UNCHANGED <<clock, store>>

TimerInit ==
  /\ clock = 0
  /\ store = <<>>
  /\ alive = TRUE
  /\ dbOpen = TRUE
  /\ running = FALSE
  /\ tasks = <<>>
  /\ loops = <<>>
  /\ hist = <<>>
  /\ crashed = {}
  /\ err = ""

TimerNext ==
  \/ \E c \in {"async", "plain"}, r \in Registrations : Register(c, r[2], r[1])
  \/ Start
  \/ Stop
  \/ \E l \in DOMAIN loops : LoopExit(l)
  \/ \E l \in DOMAIN loops : LoopTick(l)
  \/ \E l \in DOMAIN loops : LoopFail(l)
  \/ \E l \in DOMAIN loops : \E b \in loops[l].batch, o \in {"ok", "raise"} : BodyEnd(l, b, o)
  \/ \E l \in DOMAIN loops : Cancel(l)
  \/ Advance

(***************************************************************************)
(* Steps of the scheduler, recognised from the state before and after.     *)
(***************************************************************************)
\* the step launches the body of task i: a new coroutine for it joins a batch
FiredNow(i) ==
  \E l \in DOMAIN loops :
     /\ Len(loops') = Len(loops)
     /\ Coro(i, clock) \in loops'[l].batch
     /\ Coro(i, clock) \notin loops[l].batch

\* the step is a due-check that loop l completes on an open store (a
\* due-check on a store that stop() has closed raises instead, LoopFail)
LiveTick(l) ==
  /\ alive /\ alive'
  /\ running
  /\ dbOpen
  /\ Awake(loops[l])
  /\ Len(loops') = Len(loops)
  /\ loops'[l] # loops[l]
  /\ loops[l].batch \subseteq loops'[l].batch

\* every task's in-memory last_run is the value of the row of its name
Flushed ==
  \A i \in DOMAIN tasks :
     /\ tasks[i].name \in DOMAIN store
     /\ store[tasks[i].name] = tasks[i].last_run

(***************************************************************************)
(* The catalog synchronisation engine: ImageCache (image_cache.py) over    *)
(* the tables, the view and the triggers of schema.py.                     *)
(*                                                                         *)
(* A str is a sequence of one-character strings, so that splitting and     *)
(* joining paths is computed and not assumed.                              *)
(***************************************************************************)
MaxMtime == 2
\* how often one file is shown
MaxShown == 1

\* ImageCache.EXTENSIONS
EXTENSIONS ==
  { <<".", "p", "n", "g">>, <<".", "j", "p", "g">>, <<".", "j", "p", "e", "g">>,
    <<".", "h", "e", "i", "f">>, <<".", "h", "e", "i", "c">>, <<".", "j", "x", "l">>,
    <<".", "w", "e", "b", "p">> }

\* picframe.video_streamer.VIDEO_EXTENSIONS: the recognised video types
VIDEO_EXTENSIONS == { <<".", "m", "p", "4">> }

\* picture_dir and the one folder below it
Root == <<"/", "p">>
Sub == <<"/", "p", "/", "s">>

\* the directory entries tried: an image, a video with an upper-case extension,
\* a file that is no media file, and the image's name again in the sub-folder
RootEntries == { <<"a", ".", "j", "p", "g">>, <<"b", ".", "M", "P", "4">>, <<"n", ".", "t", "x", "t">> }
SubEntries == { <<"a", ".", "j", "p", "g">> }

\* str.lower() on the letters in use
LowerChar(c) ==
  CASE c = "M" -> "m"
    [] c = "P" -> "p"
    [] c = "J" -> "j"
    [] c = "G" -> "g"
    [] OTHER -> c

Lower(s) == [i \in 1..Len(s) |-> LowerChar(s[i])]

\* str.rfind(ch) + 1: the place of the last ch in s, 0 when there is none
RFind(s, ch) ==
  LET at == {i \in 1..Len(s) : s[i] = ch}
  IN  IF at = {} THEN 0 ELSE CHOOSE i \in at : \A j \in at : j <= i

\* str.lstrip(ch)
LStrip(s, ch) ==
  LET keep == {i \in 1..Len(s) : s[i] # ch}
  IN  IF keep = {} THEN <<>>
      ELSE SubSeq(s, CHOOSE i \in keep : \A j \in keep : i <= j, Len(s))

\* str.rstrip(ch)
RStrip(s, ch) ==
  LET keep == {i \in 1..Len(s) : s[i] # ch}
  IN  IF keep = {} THEN <<>>
      ELSE SubSeq(s, 1, CHOOSE i \in keep : \A j \in keep : j <= i)

\* os.path.split: <<head, tail>>, the head without its trailing slashes unless
\* it is all slashes
PathSplit(p) ==
  LET i == RFind(p, "/")
      head == SubSeq(p, 1, i)
      tail == SubSeq(p, i + 1, Len(p))
  IN  <<IF RStrip(head, "/") = <<>> THEN head ELSE RStrip(head, "/"), tail>>

\* os.path.basename
PathBasename(p) == SubSeq(p, RFind(p, "/") + 1, Len(p))

\* os.path.join of a folder and an entry
PathJoin(d, n) ==
  IF n # <<>> /\ n[1] = "/" THEN n
  ELSE IF d = <<>> \/ d[Len(d)] = "/" THEN d \o n
  ELSE d \o <<"/">> \o n

\* os.path.splitext: <<root, ext>>; the extension starts at the last dot of the
\* last component unless only dots come before it
SplitExt(p) ==
  LET sep == RFind(p, "/")
      dot == RFind(p, ".")
  IN  IF dot > sep /\ \E j \in (sep + 1)..(dot - 1) : p[j] # "."
      THEN <<SubSeq(p, 1, dot - 1), SubSeq(p, dot, Len(p))>>
      ELSE <<p, <<>>>>

\* every path a file can have on this disk
DiskPaths ==
  {PathJoin(Root, n) : n \in RootEntries} \cup {PathJoin(Sub, n) : n \in SubEntries}

\* the sequences that list the set S once each: an order os.listdir may return
Orders(S) ==
  {o \in [1..Cardinality(S) -> S] : \A i, j \in 1..Cardinality(S) : o[i] = o[j] => i = j}

\* os.listdir(dir): the entries of the folder, the sub-folder among them
ListDir(dir) ==
  {PathBasename(p) : p \in {q \in DOMAIN files : PathSplit(q)[1] = dir}}
    \cup {PathBasename(d) : d \in {e \in DOMAIN dirs : e # dir /\ PathSplit(e)[1] = dir}}

\* os.walk(picture_dir): the folders top-down
Walk == IF Sub \in DOMAIN dirs THEN <<Root, Sub>> ELSE <<Root>>

(***************************************************************************)
(* The filesystem changing underneath the engine.  Creating or deleting an *)
(* entry stamps the folder that holds it; rewriting a file stamps the file. *)
(***************************************************************************)
\* what a change of the disk leaves alone
engine == <<db, lock, bg, fg, modified_folders, modified_files, keep_looping,
            pause_looping, purge_files, shutdown_completed, upd>>

Stamp(f, k, v) == [x \in DOMAIN f \cup {k} |-> IF x = k THEN v ELSE f[x]]
Drop(f, ks) == [x \in DOMAIN f \ ks |-> f[x]]

CreateFile(p) ==
  /\ mclock < MaxMtime
  /\ UNCHANGED <<tvars, xvars, engine>>
  /\ p \notin DOMAIN files
  /\ PathSplit(p)[1] \in DOMAIN dirs
  /\ mclock' = mclock + 1
  /\ files' = Stamp(files, p, mclock + 1)
  /\ dirs' = Stamp(dirs, PathSplit(p)[1], mclock + 1)

TouchFile(p) ==
  /\ mclock < MaxMtime
  /\ UNCHANGED <<tvars, xvars, engine>>
  /\ p \in DOMAIN files
  /\ mclock' = mclock + 1
  /\ files' = Stamp(files, p, mclock + 1)
  /\ dirs' = dirs

DeleteFile(p) ==
  /\ mclock < MaxMtime
  /\ UNCHANGED <<tvars, xvars, engine>>
  /\ p \in DOMAIN files
  /\ mclock' = mclock + 1
  /\ files' = Drop(files, {p})
  /\ dirs' = Stamp(dirs, PathSplit(p)[1], mclock + 1)

MakeSub ==
  /\ mclock < MaxMtime
  /\ UNCHANGED <<tvars, xvars, engine>>
  /\ Sub \notin DOMAIN dirs
  /\ mclock' = mclock + 1
  /\ dirs' = Stamp(Stamp(dirs, Sub, mclock + 1), Root, mclock + 1)
  /\ files' = files

RemoveSub ==
  /\ mclock < MaxMtime
  /\ UNCHANGED <<tvars, xvars, engine>>
  /\ Sub \in DOMAIN dirs
  /\ mclock' = mclock + 1
  /\ dirs' = Stamp(Drop(dirs, {Sub}), Root, mclock + 1)
  /\ files' = Drop(files, {q \in DOMAIN files : PathSplit(q)[1] = Sub})

(***************************************************************************)
(* schema.py: the tables as create_schema makes them.  A row is a function *)
(* from the table's columns to cells; a cell is None (NULL) or Some(v).    *)
(***************************************************************************)
\* CREATE TABLE folder
FolderColumns == {"folder_id", "name", "last_modified"}
FolderDefault == [c \in FolderColumns |-> IF c = "last_modified" THEN Some(0) ELSE None]

\* CREATE TABLE file
FileColumns ==
  {"file_id", "folder_id", "source", "playlist", "basename", "extension", "width",
   "height", "last_modified", "displayed_count", "last_displayed"}
FileNotNull ==
  {"file_id", "folder_id", "source", "basename", "extension", "last_modified",
   "displayed_count", "last_displayed"}
FileDefault ==
  [c \in FileColumns |->
     IF c \in {"last_modified", "displayed_count", "last_displayed"} THEN Some(0) ELSE None]
\* UNIQUE(folder_id, source, playlist, basename, extension)
FileUnique == {"folder_id", "source", "playlist", "basename", "extension"}

\* CREATE TABLE meta
MetaColumns ==
  {"file_id", "orientation", "exif_datetime", "f_number", "exposure_time", "iso",
   "focal_length", "make", "model", "lens", "rating", "latitude", "longitude",
   "width", "height", "title", "caption", "tags", "nix_caption"}
MetaNotNull ==
  {"file_id", "orientation", "exif_datetime", "f_number", "iso", "width", "height"}
MetaDefault ==
  [c \in MetaColumns |->
     IF c = "orientation" THEN Some(1)
     ELSE IF c \in {"exif_datetime", "f_number", "iso", "width", "height"} THEN Some(0)
     ELSE None]

\* CREATE TABLE location, UNIQUE (latitude, longitude)
LocationColumns == {"id", "latitude", "longitude", "description"}

\* schema.REQUIRED_SCHEMA_VERSION
REQUIRED_SCHEMA_VERSION == 3

\* the store after create_schema on a new database file; db_info is None while
\* the table does not exist, and Some of its rows otherwise
EmptyStore ==
  [folder |-> {}, file |-> {}, meta |-> {}, location |-> {},
   db_info |-> Some({REQUIRED_SCHEMA_VERSION})]

\* __schema_exists_and_valid: the table db_info exists and its row holds a
\* version that is at least the required one
SchemaExistsAndValid(d) ==
  /\ d.db_info # None
  /\ \E v \in d.db_info[1] : v >= REQUIRED_SCHEMA_VERSION

\* create_schema: every CREATE is IF NOT EXISTS, so the tables that exist keep
\* their rows; DELETE FROM db_info, INSERT INTO db_info VALUES(required)
CreateSchema(d) == [d EXCEPT !.db_info = Some({REQUIRED_SCHEMA_VERSION})]

\* the rowid an INTEGER PRIMARY KEY gets when none is given: one past the largest
NewRowId(rows, key) ==
  IF rows = {} THEN 1
  ELSE 1 + (CHOOSE n \in {r[key][1] : r \in rows} : \A r \in rows : r[key][1] <= n)

\* the values of the cells of a set that are not NULL
CellValues(cells) == {c[1] : c \in cells \ {None}}

\* how a statement ends: the exception sqlite3 raises ("" for none) and the store
Ok(d) == [raised |-> "", db |-> d]
Raise(e, d) == [raised |-> e, db |-> d]

\* (SELECT folder_id from folder where name = ?): NULL when there is no such row
FolderIdOf(d, name) ==
  IF \E r \in d.folder : r["name"] = Some(name)
  THEN (CHOOSE r \in d.folder : r["name"] = Some(name))["folder_id"]
  ELSE None

\* the all_data view: file INNER JOIN folder LEFT JOIN meta LEFT JOIN location;
\* its file_id is meta.file_id (meta.*), NULL for a file without a meta row, and
\* its location the description of the row of location with the coordinates of
\* the meta row (a NULL coordinate equals nothing)
AllData(d) ==
  LET joined(f, fo) ==
        LET ms == {m \in d.meta : m["file_id"] = f["file_id"]}
            ls(m) == {l \in d.location :
                        /\ l["latitude"] # None /\ l["latitude"] = m["latitude"]
                        /\ l["longitude"] # None /\ l["longitude"] = m["longitude"]}
            row(m, description) ==
              [fname |-> fo["name"][1] \o <<"/">> \o f["basename"][1]
                           \o <<".">> \o f["extension"][1],
               last_modified |-> f["last_modified"],
               file_id |-> m["file_id"],
               meta |-> m,
               location |-> description,
               file |-> f["file_id"]]
            rows(m) == IF ls(m) = {} THEN {row(m, None)}
                       ELSE {row(m, l["description"]) : l \in ls(m)}
        IN  IF ms = {} THEN rows([c \in MetaColumns |-> None])
            ELSE UNION {rows(m) : m \in ms}
  IN  UNION {joined(p[1], p[2]) :
               p \in {q \in d.file \X d.folder : q[2]["folder_id"] = q[1]["folder_id"]}}

DeleteFiles_KeepMeta(d, ids) == [d EXCEPT !.file = {f \in @ : f["file_id"][1] \notin ids}]

\* Clean_Meta_Trigger: AFTER DELETE ON file
DeleteFiles(d, ids) ==
  [d EXCEPT !.file = {f \in @ : f["file_id"][1] \notin ids},
            !.meta = {m \in @ : m["file_id"][1] \notin ids}]

DeleteFolders_KeepFiles(d, ids) ==
  [d EXCEPT !.folder = {r \in @ : r["folder_id"][1] \notin ids}]

\* Clean_File_Trigger: AFTER DELETE ON folder, which fires Clean_Meta_Trigger
DeleteFolders(d, ids) ==
  LET gone == {f["file_id"][1] : f \in {x \in d.file : x["folder_id"][1] \in ids}}
  IN  DeleteFiles([d EXCEPT !.folder = {r \in @ : r["folder_id"][1] \notin ids}], gone)

(***************************************************************************)
(* The statements of ImageCache.__insert_file and its helpers.             *)
(***************************************************************************)
\* folder_insert: INSERT OR IGNORE INTO folder(name)
FolderInsert(d, dir) ==
  IF \E r \in d.folder : r["name"] = Some(dir) THEN Ok(d)
  ELSE Ok([d EXCEPT !.folder = @ \cup
             {[c \in FolderColumns |->
                 CASE c = "folder_id" -> Some(NewRowId(d.folder, "folder_id"))
                   [] c = "name" -> Some(dir)
                   [] OTHER -> FolderDefault[c]]}])

\* folder_update: UPDATE folder SET missing = 0 where name = ?
FolderUpdate(d, dir) ==
  IF "missing" \notin FolderColumns THEN Raise("OperationalError", d)
  ELSE Ok([d EXCEPT !.folder =
             {IF r["name"] = Some(dir) THEN [r EXCEPT !["missing"] = Some(0)] ELSE r : r \in @}])

\* file_insert: INSERT OR REPLACE INTO file(folder_id, basename, extension,
\* last_modified).  A NOT NULL column left NULL takes its default, and aborts
\* the statement when it has none; rows equal to the new one on every column of
\* the UNIQUE constraint, none of them NULL, are replaced.
FileInsert(d, dir, base, ext, mod_tm) ==
  LET given == [c \in FileColumns |->
                  CASE c = "file_id" -> Some(NewRowId(d.file, "file_id"))
                    [] c = "folder_id" -> FolderIdOf(d, dir)
                    [] c = "basename" -> Some(base)
                    [] c = "extension" -> Some(ext)
                    [] c = "last_modified" -> Some(mod_tm)
                    [] OTHER -> FileDefault[c]]
      new == [c \in FileColumns |->
                IF given[c] = None /\ c \in FileNotNull THEN FileDefault[c] ELSE given[c]]
      same == {r \in d.file : \A c \in FileUnique : r[c] # None /\ r[c] = new[c]}
  IN  IF \E c \in FileNotNull : new[c] = None THEN Raise("IntegrityError", d)
      ELSE Ok([d EXCEPT !.file = (@ \ same) \cup {new}])

\* file_update: UPDATE file SET folder_id, basename, extension, last_modified
\* WHERE file_id = ?
FileUpdate(d, dir, base, ext, mod_tm, file_id) ==
  LET hit == {r \in d.file : r["file_id"] = Some(file_id)}
      set(r) == [r EXCEPT !["folder_id"] = FolderIdOf(d, dir), !["basename"] = Some(base),
                          !["extension"] = Some(ext), !["last_modified"] = Some(mod_tm)]
      clash(r) == \E o \in d.file \ {r} : \A c \in FileUnique : o[c] # None /\ o[c] = set(r)[c]
  IN  IF \E r \in hit : set(r)["folder_id"] = None \/ clash(r) THEN Raise("IntegrityError", d)
      ELSE Ok([d EXCEPT !.file = (@ \ hit) \cup {set(r) : r \in hit}])

\* meta_insert, from __get_meta_sql_from_dict: INSERT OR REPLACE INTO meta(file_id,
\* <the keys of the dict>) with file_id (SELECT file_id from all_data where fname = ?)
MetaInsert(d, fname, meta) ==
  LET found == {v \in AllData(d) : v.fname = fname}
      picked == IF found = {} THEN None ELSE (CHOOSE v \in found : TRUE).file_id
      id == IF picked = None THEN Some(NewRowId(d.meta, "file_id")) ELSE picked
      new == [c \in MetaColumns |->
                IF c = "file_id" THEN id
                ELSE IF c \in DOMAIN meta /\ ~(meta[c] = None /\ c \in MetaNotNull) THEN meta[c]
                ELSE MetaDefault[c]]
  IN  IF ~(DOMAIN meta \subseteq MetaColumns) THEN Raise("OperationalError", d)
      ELSE Ok([d EXCEPT !.meta = {m \in @ : m["file_id"] # id} \cup {new}])

\* __update_folder_info: UPDATE folder SET last_modified = ?, missing = 0 WHERE
\* name = ?, for every <<folder, modtime>> of the collection; executemany compiles
\* the statement also for an empty collection
UpdateFolderInfo(d, folder_collection) ==
  IF "missing" \notin FolderColumns THEN Raise("OperationalError", d)
  ELSE Ok([d EXCEPT !.folder =
             {IF \E i \in DOMAIN folder_collection : r["name"] = Some(folder_collection[i][1])
              THEN LET i == CHOOSE j \in DOMAIN folder_collection :
                              /\ r["name"] = Some(folder_collection[j][1])
                              /\ \A k \in DOMAIN folder_collection :
                                    r["name"] = Some(folder_collection[k][1]) => k <= j
                   IN  [r EXCEPT !["last_modified"] = Some(folder_collection[i][2]),
                                 !["missing"] = Some(0)]
              ELSE r : r \in @}])

(***************************************************************************)
(* ImageCache.__insert_file: metadata extraction, then the write batch.    *)
(***************************************************************************)
\* the methods class ImageCache defines; self.__name resolves among them only
ImageCacheMethods ==
  {"__init__", "__schema_exists_and_valid", "__loop", "pause_looping", "stop",
   "purge_files", "update_cache", "query_cache", "get_file_info", "get_column_names",
   "__get_geo_location", "__get_modified_folders", "__get_modified_files",
   "__insert_file", "__update_folder_info", "__get_meta_sql_from_dict",
   "__purge_missing_files_and_folders", "__get_video_info"}

\* picframe.video_streamer.get_video_info: the dimensions of the video, no
\* capture time and no GPS position
VideoMeta(file) == [dimensions |-> <<2, 1>>, exif_datetime |-> None, gps_coords |-> None]

\* __get_video_info: the dict whose keys are columns of meta
GetVideoInfo(file) ==
  LET m == VideoMeta(file)
  IN  [c \in {"orientation", "width", "height", "f_number", "make", "model",
              "exposure_time", "iso", "focal_length", "rating", "lens", "exif_datetime",
              "latitude", "longitude", "tags", "title", "caption"} |->
         CASE c = "orientation" -> Some(1)
           [] c = "width" -> Some(m.dimensions[1])
           [] c = "height" -> Some(m.dimensions[2])
           [] c = "exif_datetime" -> m.exif_datetime
           [] OTHER -> None]

\* image_meta_utils.get_exif_info: the dict for an image without EXIF tags
GetExifInfo(file) ==
  [c \in {"orientation", "width", "height", "f_number", "make", "model",
          "exposure_time", "iso", "focal_length", "rating", "lens", "exif_datetime",
          "latitude", "longitude", "tags", "title", "caption"} |->
     CASE c = "orientation" -> Some(1)
       [] c \in {"width", "height", "f_number", "iso", "rating"} -> Some(0)
       [] c = "exif_datetime" -> Some(files[file])
       [] OTHER -> None]

\* __insert_file up to the lock: os.path.getmtime, then __get_video_info for a
\* video (video is how get_video_info ends) and self.__get_exif_info otherwise
Extract(file, video) ==
  LET ext == Lower(SplitExt(file)[2])
  IN  IF file \notin DOMAIN files THEN [raised |-> "FileNotFoundError"]
      ELSE IF ext \in VIDEO_EXTENSIONS
        THEN IF video = "raise" THEN [raised |-> "Exception"]
             ELSE [raised |-> "", mod_tm |-> files[file], meta |-> GetVideoInfo(file)]
      ELSE IF "__get_exif_info" \notin ImageCacheMethods THEN [raised |-> "AttributeError"]
      ELSE [raised |-> "", mod_tm |-> files[file], meta |-> GetExifInfo(file)]

\* __insert_file from acquire() to release(): folder_insert, folder_update,
\* file_insert or file_update, and meta_insert inside try/except.  held tells
\* whether the statement that raised left the write lock acquired.
WriteBatch(d, file, file_id, mod_tm, meta) ==
  LET dir == PathSplit(file)[1]
      file_only == PathSplit(file)[2]
      base == SplitExt(file_only)[1]
      extension == SplitExt(file_only)[2]
      s1 == FolderInsert(d, dir)
      s2 == FolderUpdate(s1.db, dir)
      s3 == IF file_id = None
            THEN FileInsert(s2.db, dir, base, LStrip(extension, "."), mod_tm)
            ELSE FileUpdate(s2.db, dir, base, LStrip(extension, "."), mod_tm, file_id[1])
      s4 == MetaInsert(s3.db, file, meta)
  IN  IF s2.raised # "" THEN [raised |-> s2.raised, db |-> s2.db, held |-> TRUE]
      ELSE IF s3.raised # "" THEN [raised |-> s3.raised, db |-> s3.db, held |-> TRUE]
      ELSE [raised |-> "", db |-> s4.db, held |-> FALSE]

(***************************************************************************)
(* The scan: __get_modified_folders and __get_modified_files.              *)
(***************************************************************************)
AppleDouble == <<".", "A", "p", "p", "l", "e", "D", "o", "u", "b", "l", "e">>

\* t in s
Contains(s, t) == \E i \in 1..(Len(s) - Len(t) + 1) : SubSeq(s, i, i + Len(t) - 1) = t

\* the test of __get_modified_folders on one folder of the walk: "skip" a hidden
\* one, "add" one that is not in the table or is older there, and found['missing']
\* otherwise, which raises IndexError on a row without that column
FolderCheck(d, dir) ==
  LET found == {r \in d.folder : r["name"] = Some(dir)}
      row == CHOOSE r \in found : TRUE
  IN  IF PathBasename(dir) # <<>> /\ PathBasename(dir)[1] = "." THEN "skip"
      ELSE IF found = {} THEN "add"
      ELSE IF row["last_modified"][1] < dirs[dir] THEN "add"
      ELSE IF "missing" \notin FolderColumns THEN "IndexError"
      ELSE IF row["missing"] = Some(1) THEN "add"
      ELSE "skip"

\* __get_modified_folders: the <<dir, mod_tm>> of the walk that are out of date
GetModifiedFolders(d) ==
  LET add == SelectSeq(Walk, LAMBDA dir : FolderCheck(d, dir) = "add")
  IN  IF \E i \in DOMAIN Walk : FolderCheck(d, Walk[i]) = "IndexError"
      THEN [raised |-> "IndexError"]
      ELSE [raised |-> "", folders |-> [i \in DOMAIN add |-> <<add[i], dirs[add[i]]>>]]

\* the files of one folder that __get_modified_files queues: a recognised
\* extension, no Apple junk, and no row of the same folder, basename and
\* extension that is at least as new
OutOfDateFiles(d, dir) ==
  {PathJoin(dir, file) : file \in
     {n \in ListDir(dir) :
        /\ Lower(SplitExt(n)[2]) \in (EXTENSIONS \cup VIDEO_EXTENSIONS)
        /\ ~Contains(dir, AppleDouble)
        /\ n[1] # "."
        /\ PathJoin(dir, n) \in DOMAIN files
        /\ ~\E f \in d.file :
              /\ f["basename"] = Some(SplitExt(n)[1])
              /\ f["extension"] = Some(LStrip(SplitExt(n)[2], "."))
              /\ f["folder_id"] # None
              /\ f["folder_id"] = FolderIdOf(d, dir)
              /\ f["last_modified"][1] >= files[PathJoin(dir, n)]}}

\* __get_modified_files: every list it can return, folder after folder, the
\* files of a folder in an order of os.listdir
RECURSIVE GetModifiedFiles(_, _)
GetModifiedFiles(d, modified) ==
  IF modified = <<>> THEN {<<>>}
  ELSE {a \o b : a \in Orders(OutOfDateFiles(d, Head(modified)[1])),
                 b \in GetModifiedFiles(d, Tail(modified))}

(***************************************************************************)
(* The end of update_cache: __update_folder_info, the purge, the commit.   *)
(***************************************************************************)
\* os.path.exists
Exists(p) == p \in DOMAIN files \/ p \in DOMAIN dirs

\* __purge_missing_files_and_folders, the folders: the rows whose folder is no
\* longer on disk are deleted under purge_files and flagged missing otherwise
PurgeFolders(d, purge) ==
  LET folder_id_list == {r["folder_id"] : r \in {x \in d.folder : ~Exists(x["name"][1])}}
  IN  IF folder_id_list = {} THEN [raised |-> "", db |-> d, locked |-> FALSE]
      ELSE IF purge THEN [raised |-> "", db |-> DeleteFolders(d, CellValues(folder_id_list)),
                          locked |-> TRUE]
      ELSE IF "missing" \notin FolderColumns
        THEN [raised |-> "OperationalError", db |-> d, locked |-> TRUE]
      ELSE [raised |-> "", locked |-> TRUE,
            db |-> [d EXCEPT !.folder =
                      {IF r["folder_id"] \in folder_id_list
                       THEN [r EXCEPT !["missing"] = Some(1)] ELSE r : r \in @}]]

\* __purge_missing_files_and_folders, the files: DELETE FROM file WHERE file_id = ?
\* for the file_id of every row of all_data whose fname is no longer on disk; a
\* NULL file_id deletes nothing
PurgeFileRows(d) ==
  LET file_id_list == {v.file_id : v \in {x \in AllData(d) : ~Exists(x.fname)}}
  IN  [db |-> DeleteFiles(d, CellValues(file_id_list)), locked |-> file_id_list # {}]

(***************************************************************************)
(* The background thread: ImageCache.__loop and update_cache, one step per *)
(* place where the foreground or the filesystem can come in between.       *)
(***************************************************************************)
\* the thread ends with an exception that nothing catches
Dies(e) == [pc |-> "dead", job |-> None, err |-> e]

\* the head of the while loop of __loop: leave it after stop(), start a pass
\* unless paused
BgEnter ==
  /\ bg.pc = "loop"
  /\ UNCHANGED <<tvars, xvars>>
  /\ ~keep_looping \/ ~pause_looping
  /\ bg' = [bg EXCEPT !.pc = IF ~keep_looping THEN "close" ELSE "scan"]
  /\ upd' = IF keep_looping
            THEN [upd EXCEPT !.found = {}, !.paused = FALSE, !.state = "running",
                             !.folders = "none", !.files = "none"]
            ELSE upd
  /\ UNCHANGED <<mclock, dirs, files, db, lock, fg, modified_folders, modified_files,
                 keep_looping, pause_looping, purge_files, shutdown_completed>>

\* update_cache: rescan the disk when no file is left over from the pass before
BgScan ==
  /\ bg.pc = "scan"
  /\ UNCHANGED <<tvars, xvars>>
  /\ IF modified_files # <<>>
     THEN /\ bg' = [bg EXCEPT !.pc = "drain"]
          /\ UNCHANGED <<modified_folders, modified_files, upd>>
     ELSE LET r == GetModifiedFolders(db)
          IN  IF r.raised # ""
              THEN /\ bg' = Dies(r.raised)
                   /\ upd' = [upd EXCEPT !.state = "raised"]
                   /\ UNCHANGED <<modified_folders, modified_files>>
              ELSE /\ modified_folders' = r.folders
                   /\ modified_files' \in GetModifiedFiles(db, r.folders)
                   /\ upd' = [upd EXCEPT !.found = {modified_files'[i] : i \in DOMAIN modified_files'}]
                   /\ bg' = [bg EXCEPT !.pc = "drain"]
  /\ UNCHANGED <<mclock, dirs, files, db, lock, fg, keep_looping, pause_looping,
                 purge_files, shutdown_completed>>

\* the head of the drain loop: pop the next file unless paused
BgTake ==
  /\ bg.pc = "drain"
  /\ UNCHANGED <<tvars, xvars>>
  /\ IF modified_files # <<>> /\ ~pause_looping
     THEN /\ bg' = [bg EXCEPT !.pc = "extract", !.job = Some([file |-> Head(modified_files)])]
          /\ modified_files' = Tail(modified_files)
     ELSE /\ bg' = [bg EXCEPT !.pc = "tail"]
          /\ modified_files' = modified_files
  /\ upd' = [upd EXCEPT !.paused = @ \/ pause_looping]
  /\ UNCHANGED <<mclock, dirs, files, db, lock, fg, modified_folders,
                 keep_looping, pause_looping, purge_files, shutdown_completed>>

\* __insert_file before the lock
BgExtract(video) ==
  /\ bg.pc = "extract"
  /\ UNCHANGED <<tvars, xvars>>
  /\ LET r == Extract(bg.job[1].file, video)
     IN  IF r.raised # ""
         THEN /\ bg' = Dies(r.raised)
              /\ upd' = [upd EXCEPT !.state = "raised"]
         ELSE /\ bg' = [bg EXCEPT !.pc = "write",
                                  !.job = Some([file |-> bg.job[1].file, mod_tm |-> r.mod_tm,
                                                meta |-> r.meta])]
              /\ upd' = upd
  /\ UNCHANGED <<mclock, dirs, files, db, lock, fg, modified_folders, modified_files,
                 keep_looping, pause_looping, purge_files, shutdown_completed>>

\* __insert_file from acquire() on
BgWrite ==
  /\ bg.pc = "write"
  /\ UNCHANGED <<tvars, xvars>>
  /\ lock = "free"
  /\ LET r == WriteBatch(db, bg.job[1].file, None, bg.job[1].mod_tm, bg.job[1].meta)
     IN  /\ db' = r.db
         /\ lock' = IF r.held THEN "bg" ELSE "free"
         /\ bg' = IF r.raised # "" THEN Dies(r.raised) ELSE [bg EXCEPT !.pc = "drain", !.job = None]
         /\ upd' = IF r.raised # "" THEN [upd EXCEPT !.state = "raised"] ELSE upd
  /\ UNCHANGED <<mclock, dirs, files, fg, modified_folders, modified_files,
                 keep_looping, pause_looping, purge_files, shutdown_completed>>

\* update_cache after the drain loop: __update_folder_info when no file is left
\* over, then the test of the pause flag that guards the purge
BgFolderInfo ==
  /\ bg.pc = "tail"
  /\ UNCHANGED <<tvars, xvars>>
  /\ IF modified_files # <<>>
     THEN /\ bg' = [bg EXCEPT !.pc = IF pause_looping THEN "commit" ELSE "purge_folders"]
          /\ upd' = [upd EXCEPT !.paused = @ \/ pause_looping]
          /\ UNCHANGED <<db, lock, modified_folders>>
     ELSE /\ lock = "free"
          /\ LET r == UpdateFolderInfo(db, modified_folders)
             IN  IF r.raised # ""
                 THEN /\ bg' = Dies(r.raised)
                      /\ lock' = "bg"
                      /\ upd' = [upd EXCEPT !.state = "raised", !.paused = @ \/ pause_looping]
                      /\ UNCHANGED <<db, modified_folders>>
                 ELSE /\ bg' = [bg EXCEPT !.pc = IF pause_looping THEN "commit"
                                                  ELSE "purge_folders"]
                      /\ db' = r.db
                      /\ modified_folders' = <<>>
                      /\ upd' = [upd EXCEPT !.paused = @ \/ pause_looping]
                      /\ UNCHANGED lock
  /\ UNCHANGED <<mclock, dirs, files, fg, modified_files, keep_looping, pause_looping,
                 purge_files, shutdown_completed>>

\* __purge_missing_files_and_folders up to the release() of its folder step
BgPurgeFolders ==
  /\ bg.pc = "purge_folders"
  /\ UNCHANGED <<tvars, xvars>>
  /\ LET r == PurgeFolders(db, purge_files)
     IN  /\ r.locked => lock = "free"
         /\ db' = r.db
         /\ lock' = IF r.raised # "" THEN "bg" ELSE lock
         /\ bg' = IF r.raised # "" THEN Dies(r.raised) ELSE [bg EXCEPT !.pc = "purge_files"]
         /\ upd' = [upd EXCEPT !.state = IF r.raised # "" THEN "raised" ELSE @,
                               !.folders = IF ~r.locked THEN "none"
                                           ELSE IF purge_files THEN "delete" ELSE "flag"]
  /\ UNCHANGED <<mclock, dirs, files, fg, modified_folders, modified_files, keep_looping,
                 pause_looping, purge_files, shutdown_completed>>

\* the file step: the test of __purge_files and, under it, the deletes
BgPurgeFiles ==
  /\ bg.pc = "purge_files"
  /\ UNCHANGED <<tvars, xvars>>
  /\ IF purge_files
     THEN LET r == PurgeFileRows(db)
          IN  /\ r.locked => lock = "free"
              /\ db' = r.db
              /\ bg' = [bg EXCEPT !.pc = "purge_reset"]
              /\ upd' = [upd EXCEPT !.files = "delete", !.owed = FALSE]
     ELSE /\ bg' = [bg EXCEPT !.pc = "commit"]
          /\ upd' = [upd EXCEPT !.files = "skip"]
          /\ UNCHANGED db
  /\ UNCHANGED <<mclock, dirs, files, lock, fg, modified_folders, modified_files,
                 keep_looping, pause_looping, purge_files, shutdown_completed>>

\* the last line of the file step: self.__purge_files = False
BgPurgeReset ==
  /\ bg.pc = "purge_reset"
  /\ UNCHANGED <<tvars, xvars>>
  /\ purge_files' = FALSE
  /\ bg' = [bg EXCEPT !.pc = "commit"]
  /\ UNCHANGED <<mclock, dirs, files, db, lock, fg, modified_folders, modified_files,
                 keep_looping, pause_looping, shutdown_completed, upd>>

\* the commit under the lock that ends update_cache, and back to the head of __loop
BgCommit ==
  /\ bg.pc = "commit"
  /\ UNCHANGED <<tvars, xvars>>
  /\ lock = "free"
  /\ bg' = [bg EXCEPT !.pc = "loop"]
  /\ upd' = [upd EXCEPT !.state = "returned"]
  /\ UNCHANGED <<mclock, dirs, files, db, lock, fg, modified_folders, modified_files,
                 keep_looping, pause_looping, purge_files, shutdown_completed>>

\* __loop after its while loop: commit and close under the lock
BgClose ==
  /\ bg.pc = "close"
  /\ UNCHANGED <<tvars, xvars>>
  /\ lock = "free"
  /\ bg' = [bg EXCEPT !.pc = "exited"]
  /\ shutdown_completed' = TRUE
  /\ UNCHANGED <<mclock, dirs, files, db, lock, fg, modified_folders, modified_files,
                 keep_looping, pause_looping, purge_files, upd>>

(***************************************************************************)
(* The foreground: pause_looping, purge_files, stop, get_file_info.        *)
(***************************************************************************)
PauseLooping(value) ==
  /\ fg.pc = "idle"
  /\ UNCHANGED <<tvars, xvars>>
  /\ pause_looping # value
  /\ pause_looping' = value
  /\ upd' = [upd EXCEPT !.paused = @ \/ (value /\ upd.state = "running")]
  /\ UNCHANGED <<mclock, dirs, files, db, lock, bg, fg, modified_folders, modified_files,
                 keep_looping, purge_files, shutdown_completed>>

\* purge_files(); upd.owed tells that no file step of a purge has deleted since
\* the call
PurgeFiles ==
  /\ fg.pc = "idle"
  /\ UNCHANGED <<tvars, xvars>>
  /\ ~purge_files \/ ~upd.owed
  /\ purge_files' = TRUE
  /\ upd' = [upd EXCEPT !.owed = TRUE]
  /\ UNCHANGED <<mclock, dirs, files, db, lock, bg, fg, modified_folders, modified_files,
                 keep_looping, pause_looping, shutdown_completed>>

\* stop(): clear the flag, then wait for __shutdown_completed
StopCache ==
  /\ fg.pc = "idle"
  /\ UNCHANGED <<tvars, xvars>>
  /\ keep_looping' = FALSE
  /\ fg' = [fg EXCEPT !.pc = "stop"]
  /\ UNCHANGED <<mclock, dirs, files, db, lock, bg, modified_folders, modified_files,
                 pause_looping, purge_files, shutdown_completed, upd>>

StopReturn ==
  /\ fg.pc = "stop"
  /\ UNCHANGED <<tvars, xvars>>
  /\ shutdown_completed
  /\ fg' = [fg EXCEPT !.pc = "stopped"]
  /\ UNCHANGED <<mclock, dirs, files, db, lock, bg, modified_folders, modified_files,
                 keep_looping, pause_looping, purge_files, shutdown_completed, upd>>

\* the file ids the foreground asks for
FileIds == 1..3

\* what the reverse geocoder answers: no address, or one
Addresses == {"", "Town"}

\* the where and sort clauses of query_cache: one that selects every row, the
\* default order, and one that is not SQL
WhereClauses == {"1=1", "(("}
SortClauses == {"fname ASC", "(("}

\* sqlite3 compiles SELECT file_id FROM all_data WHERE <where> ORDER BY <sort>
Compiles(where_clause, sort_clause) == where_clause = "1=1" /\ sort_clause = "fname ASC"

\* the truth value Python gives a cell read from a row: NULL and 0 are false
Truthy(cell) == cell # None /\ cell[1] # 0

\* INSERT OR REPLACE INTO location (latitude, longitude, description)
LocationInsert(d, lat, lon, description) ==
  LET same == {l \in d.location :
                 /\ lat # None /\ l["latitude"] = lat
                 /\ lon # None /\ l["longitude"] = lon}
      new == [c \in LocationColumns |->
                CASE c = "id" -> Some(NewRowId(d.location, "id"))
                  [] c = "latitude" -> lat
                  [] c = "longitude" -> lon
                  [] c = "description" -> Some(description)]
  IN  [d EXCEPT !.location = (@ \ same) \cup {new}]

\* __get_geo_location: location is what get_address answered
GetGeoLocation(d, lat, lon, location) ==
  IF location = "" THEN [ret |-> FALSE, db |-> d]
  ELSE [ret |-> TRUE, db |-> LocationInsert(d, lat, lon, location)]

\* UPDATE file SET displayed_count = displayed_count + 1, last_displayed = ?
\* WHERE file_id = ?
CountDisplay(d, file_id, now) ==
  [d EXCEPT !.file =
     {IF f["file_id"] = Some(file_id)
      THEN [f EXCEPT !["displayed_count"] = Some(@[1] + 1), !["last_displayed"] = Some(now)]
      ELSE f : f \in @}]

\* the displays the store has counted
Shown(d) ==
  Cardinality(UNION {{<<f["file_id"], k>> : k \in 1..f["displayed_count"][1]} : f \in d.file})

\* SELECT * FROM all_data where file_id = ?, fetchone()
FetchOne(d, file_id) ==
  LET hit == {v \in AllData(d) : v.file_id = Some(file_id)}
  IN  IF hit = {} THEN None ELSE Some(CHOOSE v \in hit : TRUE)

\* how a call of the foreground ends: what it returned or raised (ret is the
\* file_id of the row get_file_info returned, rows the file_ids query_cache
\* selected), and how often get_file_info asked the geocoder
Returned(op, arg, ret, rows, geo) ==
  [pc |-> "idle", op |-> <<op, arg>>, ret |-> ret, rows |-> rows,
   err |-> "", geo |-> geo]
Raised(op, arg, e, geo) ==
  [pc |-> "idle", op |-> <<op, arg>>, ret |-> None, rows |-> {},
   err |-> e, geo |-> geo]
Blocked(op, arg, geo) ==
  [pc |-> "blocked", op |-> <<op, arg>>, ret |-> None, rows |-> {},
   err |-> "", geo |-> geo]

\* get_file_info, the test of the row against the disk: os.path.getmtime raises
\* OSError for a file that is gone, which the method catches
Stale(row) ==
  /\ row # None
  /\ row[1].fname \in DOMAIN files
  /\ row[1].last_modified[1] # files[row[1].fname]

\* get_file_info, the refresh of a stale row: __insert_file(fname, file_id)
Refresh(d, row, file_id, video) ==
  LET e == Extract(row[1].fname, video)
  IN  IF e.raised # "" THEN [raised |-> e.raised, db |-> d, held |-> FALSE, locks |-> FALSE]
      ELSE WriteBatch(d, row[1].fname, Some(file_id), e.mod_tm, e.meta) @@ [locks |-> TRUE]

\* get_file_info, the test that guards __get_geo_location
Asks(row) ==
  /\ row # None
  /\ Truthy(row[1].meta["latitude"])
  /\ Truthy(row[1].meta["longitude"])
  /\ row[1].location = None

\* the file_id of a row that get_file_info returns
RowId(row) == IF row = None THEN None ELSE row[1].file_id

Show_NoLock(d, file_id, address) ==
  LET row == FetchOne(d, file_id)
      g == IF Asks(row)
           THEN GetGeoLocation(d, row[1].meta["latitude"], row[1].meta["longitude"], address)
           ELSE [ret |-> FALSE, db |-> d]
  IN  /\ fg' = Returned("get_file_info", file_id, RowId(FetchOne(g.db, file_id)), {},
                         IF Asks(row) THEN 1 ELSE 0)
      /\ db' = CountDisplay(g.db, file_id, mclock)
      /\ UNCHANGED lock

\* get_file_info after the refresh, on the store d: the geocoder, the count of
\* the display under the lock, and the row it returns
Show(d, file_id, address) ==
  LET row == FetchOne(d, file_id)
      g == IF Asks(row)
           THEN GetGeoLocation(d, row[1].meta["latitude"], row[1].meta["longitude"], address)
           ELSE [ret |-> FALSE, db |-> d]
  IN  IF lock # "free"
      THEN /\ fg' = Blocked("get_file_info", file_id, IF Asks(row) THEN 1 ELSE 0)
           /\ UNCHANGED <<db, lock>>
      ELSE /\ fg' = Returned("get_file_info", file_id, RowId(FetchOne(g.db, file_id)), {},
                              IF Asks(row) THEN 1 ELSE 0)
           /\ db' = CountDisplay(g.db, file_id, mclock)
           /\ UNCHANGED lock

\* get_file_info(file_id): the row of the view; a row older or newer than the
\* file on disk is inserted again with its file_id; the place of a row with
\* coordinates and no location is looked up; then the display is counted
GetFileInfoBody(file_id, video, address) ==
  /\ IF file_id = 0
     THEN /\ fg' = Returned("get_file_info", file_id, None, {}, 0)
          /\ UNCHANGED <<db, lock>>
     ELSE IF bg.pc = "exited"
     THEN /\ fg' = Raised("get_file_info", file_id, "ProgrammingError", 0)
          /\ UNCHANGED <<db, lock>>
     ELSE IF Stale(FetchOne(db, file_id))
     THEN LET w == Refresh(db, FetchOne(db, file_id), file_id, video)
          IN  IF w.locks /\ lock # "free"
              THEN /\ fg' = Blocked("get_file_info", file_id, 0)
                   /\ UNCHANGED <<db, lock>>
              ELSE IF w.raised # ""
              THEN /\ fg' = Raised("get_file_info", file_id, w.raised, 0)
                   /\ db' = w.db
                   /\ lock' = IF w.held THEN "fg" ELSE lock
              ELSE Show(w.db, file_id, address)
     ELSE Show(db, file_id, address)

\* a call of get_file_info by the foreground
GetFileInfo(file_id, video, address) ==
  /\ fg.pc = "idle"
  /\ UNCHANGED <<tvars, xvars>>
  /\ Shown(db) < MaxShown
  /\ GetFileInfoBody(file_id, video, address)
  /\ UNCHANGED <<mclock, dirs, files, bg, modified_folders, modified_files,
                 keep_looping, pause_looping, purge_files, shutdown_completed, upd>>

QueryCache_NoCatch(where_clause, sort_clause) ==
  /\ fg.pc = "idle"
  /\ UNCHANGED <<tvars, xvars>>
  /\ fg' = IF bg.pc = "exited" \/ ~Compiles(where_clause, sort_clause)
           THEN Raised("query_cache", <<where_clause, sort_clause>>, "OperationalError", 0)
           ELSE Returned("query_cache", <<where_clause, sort_clause>>, None,
                         {v.file_id : v \in AllData(db)}, 0)
  /\ UNCHANGED <<mclock, dirs, files, db, lock, bg, modified_folders, modified_files,
                 keep_looping, pause_looping, purge_files, shutdown_completed, upd>>

\* query_cache(where_clause, sort_clause): the cursor is made before the try, so
\* a store that __loop has closed raises; every exception of the SELECT gives
\* [].  rows holds the file_ids selected, not their order.
QueryCache(where_clause, sort_clause) ==
  /\ fg.pc = "idle"
  /\ UNCHANGED <<tvars, xvars>>
  /\ fg' = IF bg.pc = "exited"
           THEN Raised("query_cache", <<where_clause, sort_clause>>, "ProgrammingError", 0)
           ELSE IF Compiles(where_clause, sort_clause)
             THEN Returned("query_cache", <<where_clause, sort_clause>>, None,
                           {v.file_id : v \in AllData(db)}, 0)
           ELSE Returned("query_cache", <<where_clause, sort_clause>>, None, {}, 0)
  /\ UNCHANGED <<mclock, dirs, files, db, lock, bg, modified_folders, modified_files,
                 keep_looping, pause_looping, purge_files, shutdown_completed, upd>>

\* ImageCache.__init__ on a database file that holds the store d: a valid
\* version marker keeps the store as it is
Opened(d) ==
  /\ mclock = 0
  /\ dirs = (Root :> 0)
  /\ files = <<>>
  /\ db = d
  /\ lock = "free"
  /\ bg = [pc |-> "loop", job |-> None, err |-> ""]
  /\ fg = [pc |-> "idle", op |-> <<"", 0>>, ret |-> None, rows |-> {},
           err |-> "", geo |-> 0]
  /\ modified_folders = <<>>
  /\ modified_files = <<>>
  /\ keep_looping = TRUE
  /\ pause_looping = FALSE
  /\ purge_files = FALSE
  /\ shutdown_completed = FALSE
  /\ upd = [found |-> {}, paused |-> FALSE, state |-> "none", folders |-> "none",
            files |-> "none", owed |-> FALSE]

\* a database file that create_schema has just made
CacheInit == Opened(EmptyStore)

\* a store that holds a catalog when the engine opens it: the picture folder
\* with a picture, a video and a picture that has no meta row, a sub-folder
\* with a picture taken on the equator, no place looked up yet
FolderRow(folder_id, name) ==
  [FolderDefault EXCEPT !["folder_id"] = Some(folder_id), !["name"] = Some(name)]
FileRow(file_id, folder_id, basename, extension) ==
  [FileDefault EXCEPT !["file_id"] = Some(file_id), !["folder_id"] = Some(folder_id),
                      !["source"] = Some("import"), !["basename"] = Some(basename),
                      !["extension"] = Some(extension), !["last_modified"] = Some(1)]
MetaRow(file_id, latitude, longitude) ==
  [MetaDefault EXCEPT !["file_id"] = Some(file_id), !["latitude"] = Some(latitude),
                      !["longitude"] = Some(longitude)]
Catalog ==
  [folder |-> {FolderRow(1, Root), FolderRow(2, Sub)},
   file |-> {FileRow(1, 1, <<"a">>, <<"j", "p", "g">>),
             FileRow(2, 1, <<"b">>, <<"M", "P", "4">>),
             FileRow(3, 2, <<"a">>, <<"j", "p", "g">>),
             FileRow(4, 1, <<"c">>, <<"j", "p", "g">>)},
   meta |-> {MetaRow(1, 5, 7), [MetaDefault EXCEPT !["file_id"] = Some(2)], MetaRow(3, 0, 7)},
   location |-> {},
   db_info |-> Some({REQUIRED_SCHEMA_VERSION})]

OpenedInit == Opened(Catalog)

\* the database files a constructor can find: no table db_info, an empty one,
\* or one that holds an older, the required or a newer version, next to tables
\* without rows or with the rows of the catalog
StoredInfos ==
  {None, Some({})} \cup {Some({REQUIRED_SCHEMA_VERSION + k}) : k \in {-1, 0, 1}}
StoredFiles == {[s EXCEPT !.db_info = i] : s \in {EmptyStore, Catalog}, i \in StoredInfos}

\* before ImageCache(...) is called on the database file d
Unopened(d) ==
  /\ mclock = 0
  /\ dirs = (Root :> 0)
  /\ files = <<>>
  /\ db = d
  /\ lock = "free"
  /\ bg = [pc |-> "unborn", job |-> None, err |-> ""]
  /\ fg = [pc |-> "unborn", op |-> <<"", 0>>, ret |-> None, rows |-> {},
           err |-> "", geo |-> 0]
  /\ modified_folders = <<>>
  /\ modified_files = <<>>
  /\ keep_looping = TRUE
  /\ pause_looping = FALSE
  /\ purge_files = FALSE
  /\ shutdown_completed = FALSE
  /\ upd = [found |-> {}, paused |-> FALSE, state |-> "none", folders |-> "none",
            files |-> "none", owed |-> FALSE]

StoredInit == \E d \in StoredFiles : Unopened(d)

\* ImageCache.__init__: connect, create_schema unless the version marker is
\* valid, then start the thread of __loop
OpenStore ==
  /\ bg.pc = "unborn"
  /\ UNCHANGED <<tvars, xvars>>
  /\ db' = IF SchemaExistsAndValid(db) THEN db ELSE CreateSchema(db)
  /\ bg' = [bg EXCEPT !.pc = "loop"]
  /\ fg' = [fg EXCEPT !.pc = "idle"]
  /\ UNCHANGED <<mclock, dirs, files, lock, modified_folders, modified_files,
                 keep_looping, pause_looping, purge_files, shutdown_completed, upd>>

\* the steps of the engine, the foreground and the filesystem, for the paths
\* that change on disk and the file ids the foreground asks for
EngineNext(paths, ids) ==
  \/ \E p \in paths : CreateFile(p)
  \/ \E p \in paths : TouchFile(p)
  \/ \E p \in paths : DeleteFile(p)
  \/ MakeSub
  \/ RemoveSub
  \/ BgEnter
  \/ BgScan
  \/ BgTake
  \/ \E video \in {"ok", "raise"} : BgExtract(video)
  \/ BgWrite
  \/ BgFolderInfo
  \/ BgPurgeFolders
  \/ BgPurgeFiles
  \/ BgPurgeReset
  \/ BgCommit
  \/ BgClose
  \/ \E value \in BOOLEAN : PauseLooping(value)
  \/ PurgeFiles
  \/ StopCache
  \/ StopReturn
  \/ \E file_id \in ids, video \in {"ok", "raise"}, address \in Addresses :
        GetFileInfo(file_id, video, address)
  \/ \E where_clause \in WhereClauses, sort_clause \in SortClauses :
        QueryCache(where_clause, sort_clause)

\* a step of the thread that runs __loop
BgStep ==
  \/ BgEnter
  \/ BgScan
  \/ BgTake
  \/ \E video \in {"ok", "raise"} : BgExtract(video)
  \/ BgWrite
  \/ BgFolderInfo
  \/ BgPurgeFolders
  \/ BgPurgeFiles
  \/ BgPurgeReset
  \/ BgCommit
  \/ BgClose

\* on a new store every file id is unknown: the foreground asks for one
CacheNext == EngineNext(DiskPaths, {1})

\* the paths of the catalog that come and go on disk
CatalogPaths == {PathJoin(Root, <<"a", ".", "j", "p", "g">>),
                 PathJoin(Root, <<"b", ".", "M", "P", "4">>)}

OpenedNext == EngineNext(CatalogPaths, FileIds)

\* ImportPhotos.__init__: its own connection to the same database file, and
\* create_schema without a look at the version marker
OpenImport ==
  /\ UNCHANGED <<tvars, xvars>>
  /\ db' = CreateSchema(db)
  /\ UNCHANGED <<mclock, dirs, files, lock, bg, fg, modified_folders, modified_files,
                 keep_looping, pause_looping, purge_files, shutdown_completed, upd>>

\* the constructors on a stored database file, and the engine after it
StoredNext ==
  \/ OpenStore
  \/ OpenImport
  \/ OpenedNext

(***************************************************************************)
(* Model (model.py): the playlist that Controller.next() walks.            *)
(***************************************************************************)
\* calls of Controller.next() that are followed
MaxCalls == 2

\* the values of reshuffle_num in the configuration
ReshuffleNums == {1, 2}

\* Pic(self.__no_files_img, 0, 0)
NoFilesImg == <<"n", "o">>
NoFiles == [fname |-> NoFilesImg, file_id |-> 0]

\* the code point of a character of a file name
Ord(c) ==
  CASE c = "." -> 46 [] c = "/" -> 47 [] c = "4" -> 52 [] c = "M" -> 77
    [] c = "P" -> 80 [] c = "a" -> 97 [] c = "b" -> 98 [] c = "c" -> 99
    [] c = "g" -> 103 [] c = "j" -> 106 [] c = "p" -> 112 [] c = "s" -> 115

\* ORDER BY fname ASC compares the names byte by byte
RECURSIVE StrLess(_, _)
StrLess(s, t) ==
  IF s = <<>> THEN t # <<>>
  ELSE IF t = <<>> THEN FALSE
  ELSE IF s[1] = t[1] THEN StrLess(Tail(s), Tail(t))
  ELSE Ord(s[1]) < Ord(t[1])

\* fname LIKE 'picture_dir/%'
UnderPicDir(fname) ==
  /\ Len(fname) > Len(Root)
  /\ SubSeq(fname, 1, Len(Root) + 1) = Root \o <<"/">>

\* the lists query_cache can return to __get_files: the file_id column of the
\* rows of the view under picture_dir, in a random order when shuffle is set
\* and by fname otherwise (every row of the model is on the same side of the
\* recent_n cutoff, so the first sort key orders nothing)
Listings(d, shuffle) ==
  LET rows == {v \in AllData(d) : UnderPicDir(v.fname)}
      sorted(o) == \A i, j \in DOMAIN o : i < j => ~StrLess(o[j].fname, o[i].fname)
  IN  {[i \in DOMAIN o |-> o[i].file_id] : o \in {q \in Orders(rows) : shuffle \/ sorted(q)}}

\* __get_files, after its query has returned list
GetFiles(p, list) ==
  [p EXCEPT !.file_list = list, !.number_of_files = Len(list), !.file_index = 0,
            !.num_run_through = 0, !.reload_files = FALSE]

\* Model.__init__ with the configuration's shuffle and reshuffle_num; the
\* file list, None in the code until the first __get_files, is the empty list
NewPlaylist(shuffle, reshuffle_num) ==
  [file_list |-> <<>>, number_of_files |-> 0, reload_files |-> TRUE, file_index |-> 0,
   current_pic |-> None, num_run_through |-> 0,
   shuffle |-> shuffle, reshuffle_num |-> reshuffle_num,
   pc |-> "idle", missing_images |-> 0, err |-> "", calls |-> 0]

\* what the steps of the playlist leave alone
beside == <<mclock, dirs, files, db, lock, bg, fg, modified_folders, modified_files,
            keep_looping, pause_looping, purge_files, shutdown_completed, upd>>

\* Controller.next() up to the while loop of get_next_file (a paused
\* controller returns at once and nothing changes)
ControllerNext ==
  /\ playlist.pc = "idle"
  /\ playlist.calls < MaxCalls
  /\ playlist' = [playlist EXCEPT !.pc = "top", !.missing_images = 0, !.err = "",
                                  !.calls = @ + 1]
  /\ UNCHANGED <<tvars, beside, model_pause, imp>>

\* get_next_file returns pic to Controller.next(), which goes on to
\* self.__model.pause_looping = self.__viewer.is_in_transition(): an assignment
\* to the attribute of the Model object; ImageCache.pause_looping is not called
Shows(p, pic, transition) ==
  /\ playlist' = [p EXCEPT !.pc = "idle", !.current_pic = Some(pic)]
  /\ model_pause' = transition

\* get_next_file raises e and Controller.next() with it
Fails(p, e) ==
  /\ playlist' = [p EXCEPT !.pc = "idle", !.err = e]
  /\ UNCHANGED model_pause

\* one pass of the while loop from its top to the read of the file list
LoopTop(transition) ==
  /\ playlist.pc = "top"
  /\ UNCHANGED <<tvars, beside, imp>>
  /\ IF playlist.reload_files /\ bg.pc = "exited"
     THEN \* query_cache makes its cursor on the closed store
          Fails(playlist, "ProgrammingError")
     ELSE \E list \in IF playlist.reload_files THEN Listings(db, playlist.shuffle)
                      ELSE {playlist.file_list} :
       LET p1 == IF playlist.reload_files
                 THEN [GetFiles(playlist, list) EXCEPT !.missing_images = 0]
                 ELSE playlist
           p2 == IF p1.file_index = p1.number_of_files
                 THEN [p1 EXCEPT !.num_run_through = @ + 1]
                 ELSE p1
       IN  IF p1.number_of_files = 0 \/ p1.missing_images >= p1.number_of_files
           THEN Shows([p1 EXCEPT !.reload_files = TRUE], NoFiles, transition)
           ELSE IF /\ p1.file_index = p1.number_of_files
                   /\ p1.shuffle
                   /\ p2.num_run_through >= p1.reshuffle_num
           THEN /\ playlist' = [p2 EXCEPT !.reload_files = TRUE, !.file_index = 0]
                /\ UNCHANGED model_pause
           ELSE IF p2.file_index >= Len(p2.file_list)
           THEN \* self.__file_list[self.__file_index]
                Fails(p2, "IndexError")
           ELSE /\ playlist' = [p2 EXCEPT !.pc = "info"]
                /\ UNCHANGED model_pause

\* Pic(**pic_row) for the row get_file_info returned
PicOf(d, ret) ==
  IF ret = None THEN None
  ELSE Some([fname |-> (CHOOSE v \in AllData(d) : v.file_id = ret).fname, file_id |-> ret[1]])

\* the rest of the pass: get_file_info for the entry at file_index, the test
\* that the file is on disk, the step of the index
LoadPicture(video, address, transition) ==
  /\ playlist.pc = "info"
  /\ UNCHANGED <<tvars, imp>>
  /\ LET file_id == playlist.file_list[playlist.file_index + 1]
     IN  IF file_id = None
         THEN \* if not file_id: return None
              /\ fg' = Returned("get_file_info", 0, None, {}, 0)
              /\ UNCHANGED <<db, lock>>
         ELSE GetFileInfoBody(file_id[1], video, address)
  /\ LET pic == PicOf(db', fg'.ret)
         p == [playlist EXCEPT !.file_index = @ + 1]
     IN  IF fg'.pc = "blocked"
         THEN \* get_file_info waits for the write lock
              /\ playlist' = [playlist EXCEPT !.pc = "hung"]
              /\ UNCHANGED model_pause
         ELSE IF fg'.err # ""
         THEN Fails(playlist, fg'.err)
         ELSE IF pic # None /\ pic[1].fname \in DOMAIN files
         THEN Shows(p, pic[1], transition)
         ELSE /\ playlist' = [p EXCEPT !.pc = "top", !.missing_images = @ + 1]
              /\ UNCHANGED model_pause
  /\ UNCHANGED <<mclock, dirs, files, bg, modified_folders, modified_files,
                 keep_looping, pause_looping, purge_files, shutdown_completed, upd>>

\* set_next_file_to_previous_file()
SetNextFileToPreviousFile ==
  /\ playlist.pc = "idle"
  /\ playlist' = [playlist EXCEPT !.file_index =
                    IF playlist.number_of_files > 0
                    THEN (@ - 2) % playlist.number_of_files
                    ELSE 0]
  /\ UNCHANGED <<tvars, beside, model_pause, imp>>

\* the list without its first entry that holds file_id
RECURSIVE PopFirst(_, _)
PopFirst(list, file_id) ==
  IF list = <<>> THEN <<>>
  ELSE IF list[1] = Some(file_id) THEN Tail(list)
  ELSE <<list[1]>> \o PopFirst(Tail(list), file_id)

\* delete_file(): the file of the current picture is moved away and its entry
\* taken off the list
ModelDeleteFile ==
  /\ playlist.pc = "idle"
  /\ playlist.current_pic # None
  /\ UNCHANGED <<tvars, model_pause, imp>>
  /\ LET pic == playlist.current_pic[1]
         list == PopFirst(playlist.file_list, pic.file_id)
     IN  /\ playlist' = [playlist EXCEPT !.file_list = list,
                           !.number_of_files = IF list = playlist.file_list THEN @ ELSE @ - 1]
         /\ IF pic.fname \in DOMAIN files
            THEN /\ mclock < MaxMtime
                 /\ mclock' = mclock + 1
                 /\ files' = Drop(files, {pic.fname})
                 /\ dirs' = Stamp(dirs, PathSplit(pic.fname)[1], mclock + 1)
            ELSE UNCHANGED <<mclock, files, dirs>>
  /\ UNCHANGED engine

\* the setter of shuffle
SetShuffle(val) ==
  /\ playlist.pc = "idle"
  /\ playlist' = [playlist EXCEPT !.shuffle = val, !.reload_files = TRUE]
  /\ UNCHANGED <<tvars, beside, model_pause, imp>>

\* the configuration a Model starts from, and the picture folder on disk as
\* the catalog describes it: the two files of CatalogPaths, written at 1
PlaylistInit ==
  /\ \E shuffle \in BOOLEAN, reshuffle_num \in ReshuffleNums :
        playlist = NewPlaylist(shuffle, reshuffle_num)
  /\ model_pause = "method"

PlaylistNext ==
  \/ ControllerNext
  \/ \E transition \in BOOLEAN : LoopTop(transition)
  \/ \E video \in {"ok", "raise"}, address \in Addresses, transition \in BOOLEAN :
        LoadPicture(video, address, transition)
  \/ SetNextFileToPreviousFile
  \/ ModelDeleteFile
  \/ \E val \in BOOLEAN : SetShuffle(val)
  \/ \E p \in CatalogPaths : CreateFile(p)
  \/ \E p \in CatalogPaths : TouchFile(p)
  \/ \E p \in CatalogPaths : DeleteFile(p)

\* the engine on the catalog, with the first picture of the catalog on disk as
\* its row describes it
OnDisk(d) ==
  /\ mclock = 1
  /\ dirs = (Root :> 1)
  /\ files = (PathJoin(Root, <<"a", ".", "j", "p", "g">>) :> 1)
  /\ db = d
  /\ lock = "free"
  /\ bg = [pc |-> "loop", job |-> None, err |-> ""]
  /\ fg = [pc |-> "idle", op |-> <<"", 0>>, ret |-> None, rows |-> {},
           err |-> "", geo |-> 0]
  /\ modified_folders = <<>>
  /\ modified_files = <<>>
  /\ keep_looping = TRUE
  /\ pause_looping = FALSE
  /\ purge_files = FALSE
  /\ shutdown_completed = FALSE
  /\ upd = [found |-> {}, paused |-> FALSE, state |-> "none", folders |-> "none",
            files |-> "none", owed |-> FALSE]

(***************************************************************************)
(* Controller.start() and ImportPhotos.check_for_updates (controller.py,   *)
(* import_photos.py): the import launched directly and the one the         *)
(* scheduler launches.                                                     *)
(***************************************************************************)
\* time_delay and import_interval of the configuration, in seconds
TimeDelay == 1
ImportInterval == 2

\* ImportPhotos.__init__: self._importing = False; no task of start() yet
NewImport == [started |-> FALSE, importing |-> FALSE, direct |-> "none", begun |-> {}]

\* the task register() makes for a coroutine function
NewTask(name, interval) ==
  [name |-> name, callback |-> "async", interval |-> interval,
   last_run |-> InitialLastRun(store, name, interval, clock)]

\* Controller.start(): ImportPhotos is constructed, import_wrapper is made a
\* task, next and check_for_updates are registered and the scheduler started
ControllerStart ==
  /\ alive /\ dbOpen /\ ~running
  /\ ~imp.started
  /\ tasks = <<>>
  /\ db' = CreateSchema(db)
  /\ imp' = [imp EXCEPT !.started = TRUE, !.direct = "created"]
  /\ tasks' = <<NewTask("slideshow", TimeDelay), NewTask("import", ImportInterval)>>
  /\ hist' = <<[loaded |-> LoadLastRun(store, "slideshow"), fired |-> FALSE],
               [loaded |-> LoadLastRun(store, "import"), fired |-> FALSE]>>
  /\ running' = TRUE
  /\ loops' = Append(loops, NewLoop)
  /\ err' = ""
  /\ UNCHANGED <<clock, store, alive, dbOpen, crashed>>
  /\ UNCHANGED <<mclock, dirs, files, lock, bg, fg, modified_folders, modified_files,
                 keep_looping, pause_looping, purge_files, shutdown_completed, upd>>
  /\ UNCHANGED <<playlist, model_pause>>

\* check_for_updates up to its await: self._importing = True, and the blocking
\* part handed to the executor
CheckForUpdatesBegin(i) == [i EXCEPT !.importing = TRUE]

\* the finally clause of check_for_updates
CheckForUpdatesEnd(i) == [i EXCEPT !.importing = FALSE]

\* the task of import_wrapper takes its first step
DirectBegin ==
  /\ imp.direct = "created"
  /\ imp' = [CheckForUpdatesBegin(imp) EXCEPT !.direct = "running"]
  /\ UNCHANGED <<tvars, cvars, playlist, model_pause>>

\* the executor is done, or has raised (import_wrapper logs the exception)
DirectEnd(outcome) ==
  /\ imp.direct = "running"
  /\ imp' = [CheckForUpdatesEnd(imp) EXCEPT !.direct = "done"]
  /\ UNCHANGED <<tvars, cvars, playlist, model_pause>>

\* the body the scheduler launched for the task import takes its first step
TimedBegin(l, b) ==
  /\ l \in DOMAIN loops
  /\ b \in loops[l].batch
  /\ tasks[b.task].name = "import"
  /\ b \notin imp.begun
  /\ imp' = [CheckForUpdatesBegin(imp) EXCEPT !.begun = @ \cup {b}]
  /\ UNCHANGED <<tvars, cvars, playlist, model_pause>>

\* that body ends: the finally clause, then _run_task and gather
TimedEnd(l, b, outcome) ==
  /\ l \in DOMAIN loops
  /\ b \in loops[l].batch
  /\ b \in imp.begun
  /\ imp' = [CheckForUpdatesEnd(imp) EXCEPT !.begun = @ \ {b}]
  /\ BodyEnds(l, b, outcome)
  /\ UNCHANGED <<playlist, model_pause>>

\* the body of another task ends
OtherEnd(l, b, outcome) ==
  /\ l \in DOMAIN loops
  /\ b \in loops[l].batch
  /\ tasks[b.task].name # "import"
  /\ BodyEnd(l, b, outcome)

ImportInit == imp = NewImport

ImportNext ==
  \/ ControllerStart
  \/ DirectBegin
  \/ \E o \in {"ok", "raise"} : DirectEnd(o)
  \/ \E l \in DOMAIN loops : \E b \in loops[l].batch : TimedBegin(l, b)
  \/ \E l \in DOMAIN loops : \E b \in loops[l].batch, o \in {"ok", "raise"} : TimedEnd(l, b, o)
  \/ \E l \in DOMAIN loops : \E b \in loops[l].batch, o \in {"ok", "raise"} : OtherEnd(l, b, o)
  \/ \E l \in DOMAIN loops : LoopTick(l)
  \/ Advance
(***************************************************************************)
(* Specifications.                                                         *)
(***************************************************************************)
\* the playlist and the import of a scheduler or an engine taken alone
ExtraInit ==
  /\ playlist = NewPlaylist(TRUE, 1)
  /\ model_pause = "method"
  /\ ImportInit

Init == TimerInit /\ CacheInit /\ ExtraInit

\* one scheduler object, from its construction on an empty store
SpecTimer == Init /\ [][TimerNext]_vars

\* the process is destroyed at any point and the scheduler constructed again
RestartNext ==
  \/ TimerNext
  \/ Destroy
  \/ Construct

SpecRestart == Init /\ [][RestartNext]_vars

\* one ImageCache object on a new store, its background thread, a foreground
\* caller and the filesystem changing underneath
SpecCache == Init /\ [][CacheNext]_vars

\* the cache engine on a store that already holds a catalog
InitOpened == TimerInit /\ OpenedInit /\ ExtraInit

SpecOpened == InitOpened /\ [][OpenedNext]_vars

\* the same engine with its two threads scheduled: the thread of __loop takes
\* its next step while it has one, and the polling loop of stop() sees
\* __shutdown_completed once it is set
CacheFairness == WF_vars(BgStep) /\ WF_vars(StopReturn)

SpecCacheFair == Init /\ [][CacheNext]_vars /\ CacheFairness

\* the engine from the database file it finds when it is constructed
InitStored == TimerInit /\ StoredInit /\ ExtraInit

SpecStored == InitStored /\ [][StoredNext]_vars

\* Controller.next() walking the playlist of a Model whose engine has opened
\* the catalog and waits for its next pass, while files come and go
InitPlaylist == TimerInit /\ OnDisk(Catalog) /\ PlaylistInit /\ ImportInit

SpecPlaylist == InitPlaylist /\ [][PlaylistNext]_vars

\* Controller.start() and the imports that follow it
InitImport == Init

SpecImport == InitImport /\ [][ImportNext]_vars
(***************************************************************************)
(* C1. Persist before execute: in every state in which a task body is      *)
(* executing, and in every state after the process was destroyed while a   *)
(* body was executing, the persisted last_run of the task's name is the    *)
(* time of that firing.                                                    *)
(* Refuted: with two tasks registered under one name, stop() during the    *)
(* body of one of them rewrites the shared row with the other's last_run.  *)
(***************************************************************************)
C1_PersistBeforeExecute ==
  /\ \A l \in DOMAIN loops : \A b \in loops[l].batch :
        /\ tasks[b.task].name \in DOMAIN store
        /\ store[tasks[b.task].name] = b.at
  /\ \A c \in crashed :
        /\ c.name \in DOMAIN store
        /\ store[c.name] = c.at


(***************************************************************************)
(* C2. Restart durability: a task registered under a name that had a       *)
(* persisted row (left by an earlier scheduler on the same store) is       *)
(* launched only at a time now with now - (that persisted last_run) >=     *)
(* its interval.                                                           *)
(***************************************************************************)
C2_RestartDurability ==
  [][\A i \in DOMAIN tasks :
       (FiredNow(i) /\ hist[i].loaded # None)
          => clock - hist[i].loaded[1] >= tasks[i].interval]_vars

\* a reconstructed scheduler with one registration, which found the row an
\* earlier scheduler left, waited, and launched the task exactly one
\* interval after the persisted last_run
C2_Witness ==
  /\ alive
  /\ Len(tasks) = 1
  /\ hist[1].loaded # None
  /\ hist[1].fired
  /\ hist[1].loaded[1] >= 0
  /\ clock > hist[1].loaded[1]
  /\ tasks[1].last_run = hist[1].loaded[1] + tasks[1].interval
  /\ \E l \in DOMAIN loops : Coro(1, clock) \in loops[l].batch

(***************************************************************************)
(* C3. First fire: register() of a name without a persisted row sets the   *)
(* task's last_run to now - interval, and the first due-check the run loop *)
(* completes afterwards launches that task.                                *)
(***************************************************************************)
C3_FirstFire ==
  [][/\ (Len(tasks') = Len(tasks) + 1 /\ hist'[Len(tasks')].loaded = None)
          => tasks'[Len(tasks')].last_run = clock - tasks'[Len(tasks')].interval
     /\ \A l \in DOMAIN loops : LiveTick(l) =>
          \A i \in DOMAIN tasks :
             (hist[i].loaded = None /\ ~hist[i].fired) => FiredNow(i)]_vars

\* a task registered without a persisted row is executing, launched at the
\* very time it was registered
C3_Witness ==
  /\ clock = 0
  /\ \E l \in DOMAIN loops : \E b \in loops[l].batch :
        /\ hist[b.task].loaded = None
        /\ hist[b.task].fired
        /\ tasks[b.task].last_run = 0

(***************************************************************************)
(* C4. Minimum spacing: at a due-check a task is launched if and only if   *)
(* tick time - last_run >= interval; so a task is never launched less than *)
(* one interval after its previous launch.                                 *)
(***************************************************************************)
C4_MinimumSpacing ==
  [][/\ \A i \in DOMAIN tasks :
          FiredNow(i) => clock - tasks[i].last_run >= tasks[i].interval
     /\ \A l \in DOMAIN loops : LiveTick(l) =>
          \A i \in DOMAIN tasks :
             clock - tasks[i].last_run >= tasks[i].interval => FiredNow(i)]_vars

\* the only task, of interval 2, was launched at time 0; the loop has since
\* completed its due-check of time 1 without launching it and sleeps
C4_Witness ==
  /\ clock = 1
  /\ Len(tasks) = 1
  /\ tasks[1].interval = 2
  /\ hist[1].fired
  /\ tasks[1].last_run = 0
  /\ dbOpen
  /\ \E l \in DOMAIN loops : loops[l].pc = "sleep" /\ loops[l].wake = 2

(***************************************************************************)
(* C5. Batch semantics: all tasks due at a due-check are launched in that  *)
(* one step; the loop is at its gather, not at a due-check or a sleep,     *)
(* while a body of the batch is executing; no task has two bodies          *)
(* executing at the same time.                                             *)
(***************************************************************************)
C5_BatchState ==
  /\ \A l \in DOMAIN loops : loops[l].batch # {} => loops[l].pc = "gather"
  /\ \A l1, l2 \in DOMAIN loops :
        \A b1 \in loops[l1].batch : \A b2 \in loops[l2].batch :
           b1.task = b2.task => (l1 = l2 /\ b1 = b2)

C5_BatchSemantics ==
  /\ []C5_BatchState
  /\ [][\A l \in DOMAIN loops : LiveTick(l) =>
          loops'[l].batch =
             {Coro(i, clock) : i \in {j \in DOMAIN tasks :
                                       clock - tasks[j].last_run >= tasks[j].interval}}]_vars

\* one body of a batch of two has ended, the other is still executing and
\* the loop is still at its gather
C5_Witness ==
  \E l \in DOMAIN loops :
     /\ loops[l].pc = "gather"
     /\ Cardinality(loops[l].batch) = 1
     /\ Len(tasks) = 2
     /\ tasks[1].last_run = tasks[2].last_run
     /\ hist[1].fired /\ hist[2].fired
     /\ tasks[1].name # tasks[2].name

StopReturns == alive /\ alive' /\ dbOpen /\ ~dbOpen'

CancelHandled ==
  /\ alive /\ alive'
  /\ tasks' = tasks
  /\ \E l \in DOMAIN loops :
        /\ loops' = Remove(loops, l)
        /\ \/ loops[l].pc = "gather"
           \/ loops[l].pc = "sleep" /\ running

C7_ShutdownFlush ==
  [][(StopReturns \/ CancelHandled) => Flushed']_vars

(***************************************************************************)
(* C8. Registration fault: register() with a callback that is not a        *)
(* coroutine function raises TypeError and changes neither the task list   *)
(* nor the persisted table; no such callback is ever in the task list.     *)
(***************************************************************************)
C8_RegistrationFault ==
  /\ [](\A i \in DOMAIN tasks : tasks[i].callback = "async")
  /\ [][err' = "TypeError" => UNCHANGED <<tasks, store, hist, loops, running>>]_vars

\* a registration was just rejected while a task is registered and a row
\* is persisted
C8_Witness ==
  /\ err = "TypeError"
  /\ Len(tasks) = 1
  /\ DOMAIN store # {}

(***************************************************************************)
(* C9. A sync pass inserts new files exactly once: when an update_cache()  *)
(* call that never saw the pause flag set has ended, and neither the video *)
(* extractor failed nor a queued file vanished under it, every media file  *)
(* that its scan queued and that is still on disk has exactly one File row *)
(* and exactly one Meta row, and the view gives it the fname folder + "/"  *)
(* + basename + "." + extension, which is the file's path.                 *)
(* Refuted: the call ends by raising before any File row is written.  For  *)
(* an image __insert_file calls self.__get_exif_info, which the class does *)
(* not define (AttributeError); for a video folder_update names the column *)
(* missing, which the folder table of schema.py does not have              *)
(* (OperationalError, the write lock still acquired); without queued files *)
(* __update_folder_info names the same column.                             *)
(***************************************************************************)
C9_SyncInsertsOnce ==
  (/\ upd.state \in {"returned", "raised"}
   /\ ~upd.paused
   /\ bg.err \notin {"Exception", "FileNotFoundError"}) =>
     \A F \in upd.found \cap DOMAIN files :
        /\ Cardinality({v.file : v \in {x \in AllData(db) : x.fname = F}}) = 1
        /\ Cardinality({m \in db.meta :
                          \E v \in AllData(db) : v.fname = F /\ m["file_id"] = v.file}) = 1

(***************************************************************************)
(* C10. No duplicate catalog entries: no two File rows have the same       *)
(* folder, basename and extension.                                         *)
(* It holds in every reachable state, but of an empty file table only: no  *)
(* statement that writes a File row is ever reached (C9), so the case of   *)
(* the claim, a file inserted again, has no reachable state.               *)
(***************************************************************************)
C10_NoDuplicateEntries ==
  \A f, g \in db.file :
     (f["folder_id"] = g["folder_id"] /\ f["basename"] = g["basename"]
        /\ f["extension"] = g["extension"]) => f = g

\* the case of C10: a File row exists
C10_Case == db.file # {}

(***************************************************************************)
(* The catalog: what the engine does to a store that holds rows.           *)
(***************************************************************************)
\* C11: in every reachable state every Meta row's file_id is the id of exactly
\* one File row, and every File row's folder_id is the id of exactly one
\* Folder row, whatever passes, foreground refreshes and purges have run.
C11_ReferentialIntegrity ==
  /\ \A m \in db.meta : Cardinality({f \in db.file : f["file_id"] = m["file_id"]}) = 1
  /\ \A f \in db.file : Cardinality({r \in db.folder : r["folder_id"] = f["folder_id"]}) = 1

\* a purge has deleted File rows and left others, with their Meta rows
C11_AfterPurge ==
  /\ upd.files = "delete"
  /\ db.file # {}
  /\ db.file # Catalog.file
  /\ db.meta # {}

\* the ids of the rows of a table
Ids(rows, key) == {r[key] : r \in rows}

\* C12: a step that deletes a Folder row deletes every File row that refers to
\* it, a step that deletes a File row, directly or by that cascade, deletes
\* its Meta row, and the rows of other folders and files stay as they were.
C12_CascadeDelete ==
  [][LET goneFolders == Ids(db.folder, "folder_id") \ Ids(db'.folder, "folder_id")
         goneFiles == Ids(db.file, "file_id") \ Ids(db'.file, "file_id")
     IN  /\ \A f \in db.file : f["folder_id"] \in goneFolders => f["file_id"] \in goneFiles
         /\ \A m \in db.meta :
               m["file_id"] \in goneFiles => m["file_id"] \notin Ids(db'.meta, "file_id")
         /\ (goneFolders # {} \/ goneFiles # {}) =>
               /\ db'.folder \subseteq db.folder
               /\ db'.file \subseteq db.file
               /\ db'.meta \subseteq db.meta
               /\ db'.location = db.location
               /\ \A m \in db.meta \ db'.meta : m["file_id"] \in goneFiles
               /\ goneFolders # {} =>
                     \A f \in db.file \ db'.file : f["folder_id"] \in goneFolders]_vars

\* the purge has deleted the row of the sub-folder, and with it the File row
\* of its picture and the Meta row of that picture, and no other row
C12_FolderGone ==
  /\ upd.folders = "delete"
  /\ Ids(db.folder, "folder_id") = {Some(1)}
  /\ Ids(db.file, "file_id") = {Some(1), Some(2), Some(4)}
  /\ Ids(db.meta, "file_id") = {Some(1), Some(2)}

\* a row of the folder table that is flagged missing
Flagged(r) == "missing" \in DOMAIN r /\ r["missing"] = Some(1)

\* C13: while purge_files() has not been called no step of a pass removes a
\* Folder, File or Meta row; the folder step of the purge flags the rows of the
\* folders that are missing from disk; and a query still returns the files
\* that vanished from disk.
C13_DefaultPurgeNeverDeletes ==
  [][~purge_files =>
       /\ Ids(db.folder, "folder_id") \subseteq Ids(db'.folder, "folder_id")
       /\ Ids(db.file, "file_id") \subseteq Ids(db'.file, "file_id")
       /\ Ids(db.meta, "file_id") \subseteq Ids(db'.meta, "file_id")
       /\ (bg.pc = "purge_folders" /\ bg'.pc # "purge_folders") =>
             \A r \in db'.folder : ~Exists(r["name"][1]) => Flagged(r)
       /\ (fg' # fg /\ fg'.op = <<"query_cache", <<"1=1", "fname ASC">>>> /\ bg.pc # "exited") =>
             \A m \in db.meta :
               (\E v \in AllData(db) : v.file_id = m["file_id"] /\ ~Exists(v.fname))
                 => m["file_id"] \in fg'.rows]_vars

\* C13, the part about deletes alone: a step taken while the purge flag is
\* clear removes no Folder, File or Meta row.
C13_NoRowRemoved ==
  [][~purge_files =>
       /\ Ids(db.folder, "folder_id") \subseteq Ids(db'.folder, "folder_id")
       /\ Ids(db.file, "file_id") \subseteq Ids(db'.file, "file_id")
       /\ Ids(db.meta, "file_id") \subseteq Ids(db'.meta, "file_id")]_vars

\* C14: the purge that consumes a purge_files() request deletes, in its folder
\* step, every Folder row whose path is absent from disk and, in its file
\* step, every File row whose path is absent from disk together with its Meta
\* row; a cycle that deletes files has not flagged folders.
C14_DeletePolicyPurge ==
  [][/\ (bg.pc = "purge_folders" /\ bg'.pc = "purge_files" /\ purge_files) =>
          \A r \in db'.folder : Exists(r["name"][1])
     /\ (bg.pc = "purge_files" /\ bg'.pc = "purge_reset") =>
          /\ upd.folders # "flag"
          /\ \A v \in AllData(db') : Exists(v.fname)
          /\ \A m \in db'.meta : m["file_id"] \in Ids(db'.file, "file_id")]_vars

\* C14 for the rows that have a Meta row: the file step of the purge that
\* consumes the request leaves no such File row whose path is absent from disk.
C14_RowsWithMeta ==
  [][(bg.pc = "purge_files" /\ bg'.pc = "purge_reset") =>
       \A v \in AllData(db') : v.file_id # None => Exists(v.fname)]_vars

\* C15: a purge_files() request stays armed until the file step of a purge has
\* deleted after the call; rows are removed only by a purge that finds the
\* request armed; the request is cleared by the purge that deleted and by
\* nothing else, passes that skip the purge under pause included.
C15_PurgeRequestOneShot ==
  /\ [](upd.owed => purge_files)
  /\ [][(\/ ~(Ids(db.folder, "folder_id") \subseteq Ids(db'.folder, "folder_id"))
          \/ ~(Ids(db.file, "file_id") \subseteq Ids(db'.file, "file_id"))) => purge_files]_vars
  /\ [][(purge_files /\ ~purge_files') => (bg.pc = "purge_reset" /\ upd.files = "delete")]_vars
  /\ [][(bg.pc = "purge_reset" /\ bg'.pc # "purge_reset") => ~purge_files']_vars

\* C15 without the calls made while a purge deletes: rows are removed only under
\* an armed request, and only the purge that deleted clears it.
C15_ConsumedOnce ==
  /\ [][(\/ ~(Ids(db.folder, "folder_id") \subseteq Ids(db'.folder, "folder_id"))
          \/ ~(Ids(db.file, "file_id") \subseteq Ids(db'.file, "file_id"))) => purge_files]_vars
  /\ [][(purge_files /\ ~purge_files') => (bg.pc = "purge_reset" /\ upd.files = "delete")]_vars
  /\ [][(bg.pc = "purge_reset" /\ bg'.pc # "purge_reset") => ~purge_files']_vars

(***************************************************************************)
(* The foreground reads.                                                   *)
(***************************************************************************)
\* the step is a call get_file_info(id) that has come back, on an open store
Called(id) ==
  /\ fg'.op = <<"get_file_info", id>>
  /\ fg'.pc = "idle"
  /\ bg' = bg
  /\ bg.pc # "exited"
  /\ fg' # fg \/ db' # db

\* the File row of id has been counted once more and nothing else has changed
\* in the folder, file and meta tables, nor in a row of location
CountedOnce(id) ==
  /\ db'.folder = db.folder
  /\ db'.meta = db.meta
  /\ db.location \subseteq db'.location
  /\ Cardinality(db'.file) = Cardinality(db.file)
  /\ \A f \in db.file :
        IF f["file_id"] = Some(id)
        THEN \E g \in db'.file :
               /\ g["displayed_count"] = Some(f["displayed_count"][1] + 1)
               /\ [g EXCEPT !["displayed_count"] = f["displayed_count"],
                             !["last_displayed"] = f["last_displayed"]] = f
        ELSE f \in db'.file

\* C16: every call get_file_info(id) for a file of the store adds exactly 1 to
\* its displayed_count and changes nothing else but its last_displayed.
C16_CountsDisplays ==
  [][\A id \in FileIds :
       (Called(id) /\ Some(id) \in Ids(db.file, "file_id")) => CountedOnce(id)]_vars

\* C16 for the calls that find the row as new as the file on disk
C16_FreshRowCounted ==
  [][\A id \in FileIds :
       (/\ Called(id)
        /\ Some(id) \in Ids(db.file, "file_id")
        /\ ~Stale(FetchOne(db, id))) => CountedOnce(id)]_vars

\* C17: a call get_file_info(id) that finds the stored last_modified different
\* from the mtime of the file on disk returns the row of the file, and leaves
\* the File row with the same file_id, the mtime of the disk and the display
\* counted once more.
C17_RefreshesStaleRows ==
  [][\A id \in FileIds :
       (Called(id) /\ Stale(FetchOne(db, id))) =>
          /\ fg'.err = ""
          /\ fg'.ret = Some(id)
          /\ \E f \in db.file, g \in db'.file :
                /\ f["file_id"] = Some(id)
                /\ g["file_id"] = Some(id)
                /\ g["last_modified"] = Some(files[FetchOne(db, id)[1].fname])
                /\ g["displayed_count"] = Some(f["displayed_count"][1] + 1)]_vars

\* the row has a latitude and a longitude
HasGps(row) ==
  row # None /\ row[1].meta["latitude"] # None /\ row[1].meta["longitude"] # None

\* C18: a call get_file_info(id) asks the geocoder at most once, and exactly
\* when the row has coordinates and no location; a Location row is written
\* only by a call that asked.
C18_LazyGeo ==
  [][\A id \in FileIds :
       Called(id) =>
         /\ fg'.geo \in {0, 1}
         /\ fg'.geo = 1 <=> (HasGps(FetchOne(db, id)) /\ FetchOne(db, id)[1].location = None)
         /\ db'.location # db.location => fg'.geo = 1]_vars

\* C18 for the rows that are as new as the disk and whose coordinates are not 0
C18_FreshNonZero ==
  [][\A id \in FileIds :
       (/\ Called(id)
        /\ ~Stale(FetchOne(db, id))
        /\ HasGps(FetchOne(db, id)) =>
              /\ FetchOne(db, id)[1].meta["latitude"] # Some(0)
              /\ FetchOne(db, id)[1].meta["longitude"] # Some(0)) =>
         /\ fg'.geo \in {0, 1}
         /\ fg'.geo = 1 <=> (HasGps(FetchOne(db, id)) /\ FetchOne(db, id)[1].location = None)
         /\ db'.location # db.location => fg'.geo = 1]_vars

\* the step is a call of query_cache that has come back
Queried ==
  /\ fg'.op[1] = "query_cache"
  /\ bg' = bg
  /\ fg' # fg

\* C19: query_cache with a where or sort clause that is not SQL returns an
\* empty sequence and does not raise, and no call of query_cache changes a row
\* of the store.
C19_MalformedQueryEmpty ==
  [][Queried =>
       /\ db' = db
       /\ ~Compiles(fg'.op[2][1], fg'.op[2][2]) => (fg'.err = "" /\ fg'.rows = {})]_vars

\* a query that is not SQL has returned nothing from a store that holds files
C19_EmptyResult ==
  /\ fg.op[1] = "query_cache"
  /\ ~Compiles(fg.op[2][1], fg.op[2][2])
  /\ fg.err = ""
  /\ fg.rows = {}
  /\ db.file # {}
  /\ bg.pc # "exited"

\* C20: a call of stop() eventually returns, whatever the engine was doing;
\* when it has returned the thread of __loop has left the loop, committed and
\* closed the store; and no pass of update_cache begins after the call.
C20_StopTerminates ==
  /\ (fg.pc = "stop") ~> (fg.pc = "stopped")
  /\ [](fg.pc = "stopped" => bg.pc = "exited")
  /\ [][(fg.pc # "idle" /\ bg.pc = "loop") => bg'.pc \in {"loop", "close"}]_vars

\* the parts of C20 that no run refutes: a stop() that has returned finds the
\* store committed and closed, no pass begins after the call, and a stop()
\* whose thread is alive returns
C20_StopOfLiveThread ==
  /\ (fg.pc = "stop" /\ bg.pc # "dead") ~> (fg.pc = "stopped" \/ bg.pc = "dead")
  /\ [](fg.pc = "stopped" => bg.pc = "exited")
  /\ [][(fg.pc # "idle" /\ bg.pc = "loop") => bg'.pc \in {"loop", "close"}]_vars

(***************************************************************************)
(* The engine: pause, the write lock, faults and the order of a pass.      *)
(***************************************************************************)
\* the File rows of the path F whose last_modified is the mtime F has on disk
FreshRows(d, F) ==
  {v \in AllData(d) : v.fname = F /\ F \in DOMAIN files /\ v.last_modified = Some(files[F])}

\* the background thread is inside __insert_file for the file it has taken
Inserting == bg.pc \in {"extract", "write"}

\* the parts of C21 about the flag: a step taken while the pause flag is set
\* starts no pass and enters no purge, the paused thread stays in its loop
\* until stop(), and a pass that finds a backlog does not rescan the disk
C21_PausedIdles ==
  /\ [][pause_looping =>
          /\ ~(bg.pc = "loop" /\ bg'.pc = "scan")
          /\ ~(bg.pc # "purge_folders" /\ bg'.pc = "purge_folders")
          /\ (bg.pc = "loop" /\ keep_looping) => bg'.pc = "loop"]_vars
  /\ [][(bg.pc = "scan" /\ modified_files # <<>>) =>
          /\ modified_files' = modified_files
          /\ modified_folders' = modified_folders
          /\ bg'.pc \in {"scan", "drain"}]_vars

\* C21: while the pause flag is set the background loop starts no pass and
\* enters no purge, yet stays in its loop; after pause_looping(False) the next
\* pass does not rescan the disk while files are left in the backlog, and
\* every file it takes from that backlog is processed: __insert_file ends with
\* a File row as new as the file, unless the file vanished or its video
\* extraction failed.
C21_PauseSuspends ==
  /\ C21_PausedIdles
  /\ [][(Inserting /\ upd.found = {} /\ ~Inserting'
          /\ bg'.err \notin {"Exception", "FileNotFoundError"}) =>
            /\ bg'.pc = "drain"
            /\ FreshRows(db', bg.job[1].file) # {}]_vars

\* the part of C22 about the queue: a step taken while the pause flag is set
\* takes no file from the queue
C22_NoTakeWhilePaused ==
  [][pause_looping =>
       /\ ~(bg.pc = "drain" /\ bg'.pc = "extract")
       /\ (bg.pc # "scan" => modified_files' = modified_files)]_vars

\* C22: once pause_looping(True) has been called during a pass, no further
\* file is taken from the queue while the flag is set, and the __insert_file
\* of the one file already taken runs to its end: the file has a File row as
\* new as the file and a Meta row, unless the file vanished or its video
\* extraction failed.
C22_PauseBetweenWrites ==
  /\ C22_NoTakeWhilePaused
  /\ [][(pause_looping /\ Inserting /\ ~Inserting'
          /\ bg'.err \notin {"Exception", "FileNotFoundError"}) =>
            /\ bg'.pc = "drain"
            /\ \E v \in FreshRows(db', bg.job[1].file) : v.file_id # None]_vars

\* C23: every step that changes a row of the store, by the background loop or
\* by get_file_info, and the commits of update_cache and __loop, are taken
\* with the write lock acquired by the step: the lock was free before it, so
\* no thread writes while another holds the lock.
C23_WritesSerialised ==
  /\ [][db' # db => lock = "free"]_vars
  /\ [][(bg.pc \in {"commit", "close"} /\ bg'.pc # bg.pc) => lock = "free"]_vars

\* the background thread holds the write lock and get_file_info waits for it
\* with its display not counted
C23_WriterWaits ==
  /\ lock = "bg"
  /\ fg.pc = "blocked"
  /\ fg.op[1] = "get_file_info"
  /\ \E f \in db.file : f["file_id"] = Some(fg.op[2]) /\ f["displayed_count"] = Some(0)

\* the files a scan recognises: a media extension, no hidden file, no Apple junk
Recognised(F) ==
  /\ Lower(SplitExt(PathSplit(F)[2])[2]) \in (EXTENSIONS \cup VIDEO_EXTENSIONS)
  /\ ~Contains(PathSplit(F)[1], AppleDouble)
  /\ PathSplit(F)[2][1] # "."

\* every recognised file on disk has a File row that is not older than the file
Consistent ==
  \A F \in DOMAIN files :
     Recognised(F) =>
       \E v \in AllData(db) : v.fname = F /\ v.last_modified[1] >= files[F]

\* C24: when from some point on the disk does not change and the engine is
\* neither paused nor stopped, then from some point on every recognised file
\* on disk has a File row that is not older than the file, and no file is
\* queued.
C24_EventuallyConsistent ==
  (/\ <>[](~pause_looping /\ keep_looping)
   /\ <>[][files' = files /\ dirs' = dirs]_<<files, dirs>>) =>
     <>[](Consistent /\ modified_files = <<>>)

\* the step is ImageCache.__init__
Opening == bg.pc = "unborn" /\ bg'.pc # "unborn"

\* what the constructor does to the rows: with or without a valid version
\* marker every Folder, File, Meta and Location row stays, and the store ends
\* with a version that is at least the required one
C25_RowsSurviveOpen ==
  [][Opening =>
       /\ db'.folder = db.folder /\ db'.file = db.file
       /\ db'.meta = db.meta /\ db'.location = db.location
       /\ SchemaExistsAndValid(db')
       /\ SchemaExistsAndValid(db) => db' = db]_vars

\* C25: a constructor that finds no version marker or a version below the
\* required one leaves a store without any Folder, File, Meta or Location row,
\* stamped with the required version; one that finds a version that is at
\* least the required one leaves every table as it was.
C25_RebuildIsDestructive ==
  [][Opening =>
       IF SchemaExistsAndValid(db) THEN db' = db ELSE db' = EmptyStore]_vars

\* C26: when the extraction or a write of __insert_file raises for a queued
\* file, the insert of its rows is still attempted, the drain loop goes on
\* with the files that are left, and the thread of __loop does not end.
C26_FaultsContained ==
  /\ [][(bg.pc = "extract" /\ bg'.pc # "extract") => bg'.pc = "write"]_vars
  /\ [][(bg.pc = "write" /\ bg'.pc # "write") => bg'.pc = "drain"]_vars
  /\ [][Inserting => bg'.pc # "dead"]_vars

\* C27: the write lock is free whenever __insert_file, __update_folder_info,
\* __get_geo_location, the purge or get_file_info has ended, also when one of
\* its statements raised, and no get_file_info is left waiting for the lock.
\* (A step of the model holds the lock from acquire() to release(), so the
\* lock is taken in a state only when an operation ended without release().)
C27_LockAlwaysReleased ==
  /\ lock = "free"
  /\ fg.pc # "blocked"

\* C28: no thread holds the write lock while it is inside the extraction of
\* __insert_file or inside the lookup of the geocoder: the background thread
\* does not hold it when it extracts, and the caller of get_file_info does not
\* hold it when its call refreshes a stale row or asks the geocoder.
C28_NoLockDuringSlowCalls ==
  [][/\ (bg.pc = "extract" /\ bg' # bg) => lock # "bg"
     /\ \A id \in FileIds :
          (/\ fg.pc = "idle" /\ fg'.pc \in {"idle", "blocked"}
           /\ fg'.op = <<"get_file_info", id>> /\ fg' # fg /\ bg' = bg) =>
            ((Stale(FetchOne(db, id)) \/ fg'.geo = 1) => lock # "fg")]_vars

(***************************************************************************)
(* C29. File and Meta are visible together: no get_file_info or            *)
(* query_cache sees a File row whose Folder, File and Meta batch is partly *)
(* applied.  Not settled: the batch of __insert_file never gets as far as  *)
(* its File statement (folder_update raises before it, C9), so a File row  *)
(* is neither written nor rewritten in any step, by a pass or by a         *)
(* refresh, and there is no batch on a File row for a reader to see part   *)
(* of.  The formula below states that absence, not the claim.              *)
(***************************************************************************)
C29_NoBatchReachesFile ==
  [][/\ \A f \in db'.file :
          \E g \in db.file :
             f = [g EXCEPT !["displayed_count"] = f["displayed_count"],
                           !["last_displayed"] = f["last_displayed"]]
     /\ db'.meta \subseteq db.meta]_vars

\* the parts of C30 about the order: a pass that finds a backlog does not
\* rescan, and no step changes the stored last_modified of a folder unless it
\* is the end of a drain loop that has emptied the backlog
C30_OrderOfWriteBack ==
  /\ [][(bg.pc = "scan" /\ modified_files # <<>>) =>
          (modified_files' = modified_files /\ modified_folders' = modified_folders)]_vars
  /\ [][\A r \in db.folder, q \in db'.folder :
          (q["folder_id"] = r["folder_id"] /\ q["last_modified"] # r["last_modified"]) =>
            (bg.pc = "tail" /\ modified_files = <<>>)]_vars

\* C30: update_cache rescans only when the backlog is empty; the stored
\* last_modified of a folder changes only at the end of a drain loop that has
\* emptied the backlog; and that step writes the mtime seen at the scan to the
\* row of every folder of the revisit set that has one, and leaves the revisit
\* set empty.
C30_WriteBackWhenDrained ==
  /\ C30_OrderOfWriteBack
  /\ [][(bg.pc = "tail" /\ modified_files = <<>> /\ bg'.pc # "tail") =>
          /\ modified_folders' = <<>>
          /\ \A i \in DOMAIN modified_folders :
                \A q \in db'.folder :
                   q["name"] = Some(modified_folders[i][1]) =>
                     q["last_modified"] = Some(modified_folders[i][2])]_vars

(***************************************************************************)
(* The missing flag, the version marker, and the scheduler's corner cases. *)
(***************************************************************************)
\* the step ends a pass of update_cache, by its commit or by an exception,
\* that never saw the pause flag set and deleted nothing
PassEnds ==
  /\ upd.state = "running"
  /\ upd'.state \in {"returned", "raised"}
  /\ ~upd'.paused
  /\ upd'.folders # "delete"
  /\ upd'.files # "delete"

\* C31: when a pass that was never paused and ran no deleting purge has ended,
\* each Folder row is flagged missing if and only if its path is absent from
\* disk; and a scan never fails on a folder whose row is up to date, it
\* revisits the folder if its row is flagged.
C31_MissingFlagTracksDisk ==
  /\ [][PassEnds => \A r \in db'.folder : Flagged(r) <=> ~Exists(r["name"][1])]_vars
  /\ [][(bg.pc = "scan" /\ bg'.pc # "scan") => bg'.err # "IndexError"]_vars

\* the versions db_info holds
Versions(d) == IF d.db_info = None THEN {} ELSE d.db_info[1]

\* the step is an opening of the store, by ImageCache or by ImportPhotos
Opens == Opening \/ db'.db_info # db.db_info

\* the part of C32 about the row: every opening leaves exactly one row in
\* db_info, and the opening by ImageCache never lowers the version
C32_OneRow ==
  [][Opens =>
       /\ Cardinality(Versions(db')) = 1
       /\ Opening => \A v \in Versions(db), w \in Versions(db') : w >= v]_vars

\* C32: every opening of the store, by ImageCache or by ImportPhotos, leaves
\* exactly one row in db_info, and no opening lowers the stored version.
C32_VersionMarker ==
  [][Opens =>
       /\ Cardinality(Versions(db')) = 1
       /\ \A v \in Versions(db), w \in Versions(db') : w >= v]_vars

\* the task registered last under the name n
LastOf(n) ==
  CHOOSE j \in DOMAIN tasks :
     /\ tasks[j].name = n
     /\ \A k \in DOMAIN tasks : tasks[k].name = n => k <= j

\* the step is a register() that succeeds
Registers == alive /\ alive' /\ Len(tasks') = Len(tasks) + 1

C34_NoWriteAfterClose == [][~dbOpen => store' = store]_vars

\* C34: whatever the sequence of start() and stop(), at most one _run
\* coroutine is alive while the scheduler is running, and the persisted
\* table does not change once stop() has closed the connection.
C34_SingleLoop ==
  /\ [](running => Len(loops) <= 1)
  /\ C34_NoWriteAfterClose

\* the part of C35 about the count: number_of_files is the length of the list
C35_CountIsLength == playlist.number_of_files = Len(playlist.file_list)

\* C35: whatever the calls of get_next_file, set_next_file_to_previous_file
\* and delete_file, and whatever shuffle and reshuffle_num are,
\* number_of_files is the length of the file list, and get_next_file reads the
\* list only at a file_index from 0 to number_of_files - 1: no read of the list
\* raises IndexError.
C35_IndexInRange ==
  /\ C35_CountIsLength
  /\ playlist.pc = "info" =>
        /\ 0 <= playlist.file_index
        /\ playlist.file_index < playlist.number_of_files
  /\ playlist.err # "IndexError"

\* get_next_file has returned to Controller.next() or raised
CallEnded == playlist.calls > 0 /\ playlist.pc = "idle"

\* the part of C36 about the placeholder: a call that returns gives a
\* picture, and when it gives the "no files" picture the reload flag is set
C36_PlaceholderReloads ==
  (CallEnded /\ playlist.err = "") =>
     /\ playlist.current_pic # None
     /\ playlist.current_pic = Some(NoFiles) => playlist.reload_files

\* C36: every call of get_next_file ends by returning a picture: it does not
\* raise and it does not wait for ever; when it returns the "no files"
\* picture the reload flag is set, so that the next call queries the cache.
C36_ReturnsPicture ==
  /\ C36_PlaceholderReloads
  /\ CallEnded => playlist.err = ""
  /\ playlist.pc # "hung"

\* the step is the end of a Controller.next() that advanced to a picture
Advances ==
  /\ playlist.pc \in {"top", "info"}
  /\ playlist'.pc = "idle"
  /\ playlist'.err = ""

\* the step is the end of a run of check_for_updates
RunEnds ==
  \/ imp.direct = "running" /\ imp'.direct = "done"
  \/ imp'.begun # imp.begun /\ imp'.begun \subseteq imp.begun

\* the part of C37 about the flag going down: the end of a run of
\* check_for_updates, by return or by exception, leaves _importing false
C37_FlagClearedAtEnd == [][RunEnds => ~imp'.importing]_vars

\* how many runs of check_for_updates are in progress
InProgress == (IF imp.direct = "running" THEN 1 ELSE 0) + Cardinality(imp.begun)

\* C37: at most one run of check_for_updates is in progress at any time, and
\* _importing is true exactly while one is, also after Controller.start()
\* has launched an import directly and registered the import task.
C37_NoOverlap ==
  /\ InProgress <= 1
  /\ imp.importing <=> InProgress > 0

\* C38: each time Controller.next() advances to a picture, the pause flag of
\* the engine becomes the value viewer.is_in_transition() returned.
C38_PauseFollowsTransition ==
  [][Advances => pause_looping' = model_pause']_vars
====
